---- MODULE Spec2Model ----
(***************************************************************************)
(* A model of the bsl safe-integral layer (src/include/bsl):               *)
(*   integer.rs        the checked primitives of the native widths         *)
(*   safe_integral.rs  SafeIntegral<T>: value, poisoned and unchecked bit  *)
(*   convert.rs        the to_X / to_X_unsafe conversions                  *)
(*   assert.rs         the contract-violation primitive                    *)
(*                                                                         *)
(* One SafeIntegral variable v is driven through the public operations.    *)
(* i8 and u8 are modelled at their real width; every operand a binary      *)
(* operator takes besides v is built by the model's own constructors and   *)
(* operators, so it is a value a program can hold.                         *)
(***************************************************************************)
EXTENDS Integers, Sequences, FiniteSets, TLC

VARIABLES debug_assertions, v, idx, prov, last, steps, done, twin, fin

vars == << debug_assertions, v, idx, prov, last, steps, done, twin, fin >>

\* ---------------------------------------------------------------- bounds

\* the number of operations that assign to v after its construction; a run
\* ends with one read of v
MaxSteps == 2

\* raw integers handed to the operations: -MaxRaw..MaxRaw and the extremes
MaxRaw == 1

\* the number of bits usize is modelled with: wider than every other modelled
\* width, and narrow enough for its sums to be computed
UsizeBits == 20

\* the number of Finally guards a run makes
MaxGuards == 3

\* ------------------------------------------------------- Option<T> values

None == << >>

Some(x) == << x >>

is_none(o) == o = << >>

unwrap(o) == o[1]

\* ------------------------------------------------ integer.rs: native widths

\* the widths a SafeIntegral is constructed and computed in
Types == {"i8", "u8"}

\* the widths the conversions also reach
WideTypes == {"i16", "u16", "usize"}

SignedTypes == {"i8", "i16"}

UnsignedTypes == {"u8", "u16", "usize"}

BitsOf(t) ==
    CASE t = "i8" -> 8 [] t = "u8" -> 8 [] t = "i16" -> 16 [] t = "u16" -> 16
      [] t = "usize" -> UsizeBits [] t = "u32" -> 32

\* i8::MAX, u8::MAX, i16::MAX, u16::MAX, usize::MAX
T_max_value(t) ==
    CASE t = "i8" -> 127 [] t = "u8" -> 255 [] t = "i16" -> 32767 [] t = "u16" -> 65535
      [] t = "usize" -> 2 ^ UsizeBits - 1

\* i8::MIN, u8::MIN, i16::MIN, u16::MIN, usize::MIN
T_min_value(t) ==
    CASE t = "i8" -> -128 [] t = "i16" -> -32768 [] t \in {"u8", "u16", "usize"} -> 0

\* T::default()
T_default(t) == 0

T_magic_0(t) == 0

T_magic_1(t) == 1

T_magic_2(t) == 2

T_magic_3(t) == 3

T_magic_neg_1(t) == -1

T_magic_neg_2(t) == -2

T_magic_neg_3(t) == -3

Pow2(n) == 2 ^ n

\* the value of `n as t`: the integer of t's range congruent to n modulo 2^bits
CastAs(t, n) ==
    LET m == n % Pow2(BitsOf(t))
    IN  IF t \in SignedTypes /\ m >= Pow2(BitsOf(t) - 1) THEN m - Pow2(BitsOf(t)) ELSE m

Abs(n) == IF n < 0 THEN -n ELSE n

\* Rust's integer division truncates toward zero
TruncDiv(a, b) ==
    LET q == Abs(a) \div Abs(b)
    IN  IF (a < 0) = (b < 0) THEN q ELSE -q

\* Rust's remainder takes the sign of the dividend
TruncRem(a, b) == a - b * TruncDiv(a, b)

\* the checked primitives answer None when the exact result leaves [MIN, MAX]
InRangeOrNone(t, r) == IF r < T_min_value(t) \/ r > T_max_value(t) THEN None ELSE Some(r)

\* an addition that wraps instead of reporting the overflow
add_checked_wrapping(t, a, b) == Some(CastAs(t, a + b))

add_checked(t, a, b) == InRangeOrNone(t, a + b)

sub_checked(t, a, b) == InRangeOrNone(t, a - b)

mul_checked(t, a, b) == InRangeOrNone(t, a * b)

\* a division that wraps min_value / -1 instead of reporting the overflow
div_checked_wrapping(t, a, b) == IF b = 0 THEN None ELSE Some(CastAs(t, TruncDiv(a, b)))

div_checked(t, a, b) == IF b = 0 THEN None ELSE InRangeOrNone(t, TruncDiv(a, b))

rem_checked(t, a, b) ==
    IF b = 0 THEN None
    ELSE IF is_none(InRangeOrNone(t, TruncDiv(a, b))) THEN None
    ELSE Some(TruncRem(a, b))

\* a negation that wraps instead of reporting the overflow
neg_checked_wrapping(t, a) == Some(CastAs(t, -a))

neg_checked(t, a) == InRangeOrNone(t, -a)

\* wrapping_shl / wrapping_shr: the amount is taken modulo the bit width
\* a shift that empties the value when the amount reaches the bit width
shl_emptying(t, a, k) ==
    IF k >= BitsOf(t) THEN 0 ELSE (a % Pow2(BitsOf(t) - k)) * Pow2(k)

shl_wrapping(t, a, k) ==
    LET n == k % BitsOf(t)
    IN  (a % Pow2(BitsOf(t) - n)) * Pow2(n)

shr_wrapping(t, a, k) == a \div Pow2(k % BitsOf(t))

\* bitwise operators of an unsigned width, bit by bit from the low end
RECURSIVE BitOp(_, _, _, _)
BitOp(op, a, b, n) ==
    IF n = 0 THEN 0
    ELSE LET x == a % 2
             y == b % 2
             z == CASE op = "and" -> IF x = 1 /\ y = 1 THEN 1 ELSE 0
                    [] op = "or"  -> IF x = 1 \/ y = 1 THEN 1 ELSE 0
                    [] op = "xor" -> IF x # y THEN 1 ELSE 0
         IN  z + 2 * BitOp(op, a \div 2, b \div 2, n - 1)

BitNot(t, a) == T_max_value(t) - a

\* into_i8 that casts without a range test
into_i8_truncating(t, n) == Some(CastAs("i8", n))

into_i8(t, n) ==
    CASE t = "i8" -> Some(CastAs("i8", n))
      [] t = "i16" -> IF n < T_min_value("i8") THEN None
                      ELSE IF n > T_max_value("i8") THEN None
                      ELSE Some(CastAs("i8", n))
      [] t \in {"u8", "u16", "usize"} ->
            IF n > T_max_value("i8") THEN None ELSE Some(CastAs("i8", n))

into_i16(t, n) ==
    CASE t \in {"i8", "i16", "u8"} -> Some(CastAs("i16", n))
      [] t \in {"u16", "usize"} ->
            IF n > T_max_value("i16") THEN None ELSE Some(CastAs("i16", n))

\* into_u8 that casts without a range test
into_u8_truncating(t, n) == Some(CastAs("u8", n))

into_u8(t, n) ==
    CASE t = "i8" -> IF n < 0 THEN None ELSE Some(CastAs("u8", n))
      [] t = "i16" -> IF n < 0 THEN None
                      ELSE IF n > T_max_value("u8") THEN None
                      ELSE Some(CastAs("u8", n))
      [] t = "u8" -> Some(CastAs("u8", n))
      [] t \in {"u16", "usize"} ->
            IF n > T_max_value("u8") THEN None ELSE Some(CastAs("u8", n))

into_u16(t, n) ==
    CASE t \in {"i8", "i16"} -> IF n < 0 THEN None ELSE Some(CastAs("u16", n))
      [] t \in {"u8", "u16"} -> Some(CastAs("u16", n))
      [] t = "usize" -> IF n > T_max_value("u16") THEN None ELSE Some(CastAs("u16", n))

\* into_usize that casts a negative value instead of refusing it
into_usize_sign_changing(t, n) == Some(CastAs("usize", n))

into_usize(t, n) ==
    CASE t \in {"i8", "i16"} -> IF n < 0 THEN None ELSE Some(CastAs("usize", n))
      [] t \in {"u8", "u16", "usize"} -> Some(CastAs("usize", n))

into_u8_unsafe(t, n) == CastAs("u8", n)

into_u16_unsafe(t, n) == CastAs("u16", n)

into_usize_unsafe(t, n) == CastAs("usize", n)

\* ------------------------------------------------ assert.rs: crate::assert

\* an assert that returns to its caller
assert_returning(msg) == FALSE

\* an assert that panics in a release build too
assert_in_every_build(msg) == TRUE

\* TRUE when the call diverges: it panics in a debug build and is an empty
\* function in a release build
assert(msg) == debug_assertions

\* the outcome of a call that may panic
Panic == [panicked |-> TRUE, ret |-> << >>]

Return(x) == [panicked |-> FALSE, ret |-> << x >>]

\* --------------------------------------------- safe_integral.rs: the struct

SafeIntegral(t, val, poisoned, unchecked) ==
    [ty |-> t, m_val |-> val, m_poisoned |-> poisoned, m_unchecked |-> unchecked]

\* update_poisoned with = in place of |=
update_poisoned_overwriting(self, poisoned) ==
    [self EXCEPT !.m_poisoned = poisoned, !.m_unchecked = TRUE]

update_poisoned(self, poisoned) ==
    IF debug_assertions
    THEN [self EXCEPT !.m_poisoned = @ \/ poisoned, !.m_unchecked = TRUE]
    ELSE [self EXCEPT !.m_poisoned = @ \/ poisoned]

\* a verification that never fails
verify_poison_never_fails(self) == FALSE

\* TRUE when the call panics
verify_poison_has_been_checked(self) ==
    IF debug_assertions
    THEN IF self.m_unchecked
         THEN assert("SafeIntegrals must be checked before use")
         ELSE FALSE
    ELSE FALSE

\* mark_as_unchecked with an empty body
mark_as_unchecked_skipped(self) == self

mark_as_unchecked(self) ==
    IF debug_assertions THEN [self EXCEPT !.m_unchecked = TRUE] ELSE self

\* mark_as_checked_if_valid that clears the poison with the obligation
mark_as_checked_clearing_poison(self) ==
    IF debug_assertions THEN [self EXCEPT !.m_unchecked = FALSE, !.m_poisoned = FALSE] ELSE self

mark_as_checked_if_valid(self) ==
    IF debug_assertions THEN [self EXCEPT !.m_unchecked = self.m_poisoned] ELSE self

\* a constructor that marks its value unchecked
new_unchecked(t, val) == SafeIntegral(t, val, FALSE, TRUE)

new(t, val) == SafeIntegral(t, val, FALSE, FALSE)

\* #[derive(Default)]: every field takes its default
default(t) == SafeIntegral(t, T_default(t), FALSE, FALSE)

make_safe(t, val) == new(t, val)

new_with_flags_from(t, val, flags) ==
    SafeIntegral(t, val, flags.m_poisoned, flags.m_unchecked)

\* new_from_option_with_flags_from that keeps the flags' m_unchecked when the
\* option holds nothing
new_from_option_keeping_unchecked(t, val, flags) ==
    IF is_none(val)
    THEN SafeIntegral(t, T_default(t), TRUE, flags.m_unchecked)
    ELSE SafeIntegral(t, unwrap(val), flags.m_poisoned, flags.m_unchecked)

new_from_option_with_flags_from(t, val, flags) ==
    IF is_none(val)
    THEN SafeIntegral(t, T_default(t), TRUE, TRUE)
    ELSE SafeIntegral(t, unwrap(val), flags.m_poisoned, flags.m_unchecked)

max_value(t) == new(t, T_max_value(t))

min_value(t) == new(t, T_min_value(t))

magic_neg_1(t) == new(t, T_magic_neg_1(t))

magic_neg_2(t) == new(t, T_magic_neg_2(t))

magic_neg_3(t) == new(t, T_magic_neg_3(t))

magic_0(t) == new(t, T_magic_0(t))

magic_1(t) == new(t, T_magic_1(t))

magic_2(t) == new(t, T_magic_2(t))

magic_3(t) == new(t, T_magic_3(t))

get_with_sloc(self) ==
    IF self.m_poisoned /\ assert("a poisoned SafeIntegral was read") THEN Panic
    ELSE IF verify_poison_has_been_checked(self) THEN Panic
    ELSE Return(self.m_val)

get(self) == get_with_sloc(self)

is_pos(self) ==
    IF self.m_poisoned /\ assert("a poisoned SafeIntegral was read") THEN Panic
    ELSE IF verify_poison_has_been_checked(self) THEN Panic
    ELSE Return(self.m_val > T_magic_0(self.ty))

is_neg(self) ==
    IF self.m_poisoned /\ assert("a poisoned SafeIntegral was read") THEN Panic
    ELSE IF verify_poison_has_been_checked(self) THEN Panic
    ELSE Return(self.m_val < T_magic_0(self.ty))

is_zero(self) ==
    IF self.m_poisoned /\ assert("a poisoned SafeIntegral was read") THEN Panic
    ELSE IF verify_poison_has_been_checked(self) THEN Panic
    ELSE Return(self.m_val = T_magic_0(self.ty))

\* is_poisoned without the call of mark_as_checked_if_valid
is_poisoned_without_marking(self) == [self |-> self, ret |-> self.m_poisoned]

\* &mut self: the receiver after the call, and the answer
is_poisoned(self) ==
    LET s == mark_as_checked_if_valid(self)
    IN  [self |-> s, ret |-> s.m_poisoned]

\* is_invalid reporting the unchecked flag
is_invalid_of_unchecked(self) == self.m_unchecked

is_invalid(self) == self.m_poisoned

is_valid(self) == ~is_invalid(self)

\* is_zero_or_poisoned asking is_invalid, which marks nothing
is_zero_or_poisoned_without_marking(self) ==
    [self |-> self, ret |-> is_invalid(self) \/ self.m_val = T_magic_0(self.ty)]

is_zero_or_poisoned(self) ==
    LET p == is_poisoned(self)
    IN  IF p.ret THEN [self |-> p.self, ret |-> TRUE]
        ELSE [self |-> p.self, ret |-> p.self.m_val = T_magic_0(self.ty)]

is_zero_or_invalid(self) ==
    IF is_invalid(self) THEN TRUE ELSE self.m_val = T_magic_0(self.ty)

\* checked() returning the receiver as it is
checked_keeping_flags(self) ==
    IF self.m_poisoned /\ assert("a poisoned SafeIntegral was read") THEN Panic ELSE Return(self)

checked(self) ==
    IF debug_assertions
    THEN IF self.m_poisoned
         THEN IF assert("a poisoned SafeIntegral was read") THEN Panic ELSE Return(self)
         ELSE Return(SafeIntegral(self.ty, self.m_val, self.m_poisoned, FALSE))
    ELSE Return(self)

is_unchecked(self) == IF debug_assertions THEN self.m_unchecked ELSE FALSE

is_checked(self) == ~is_unchecked(self)

\* is_valid_and_checked as the release build has it
is_valid_and_checked_ignoring_unchecked(self) == is_valid(self)

is_valid_and_checked(self) ==
    IF debug_assertions
    THEN IF is_invalid(self) THEN FALSE
         ELSE IF is_unchecked(self) THEN FALSE
         ELSE TRUE
    ELSE is_valid(self)

\* failure() without the mark
failure_checked(t) == SafeIntegral(t, T_default(t), TRUE, FALSE)

failure(t) == SafeIntegral(t, T_default(t), TRUE, TRUE)

\* ------------------------------------------- safe_integral.rs: rational

\* PartialEq for SafeIntegral<T>: both reads are made before the comparison
eq(self, rhs) ==
    LET l == get_with_sloc(self)
        r == get_with_sloc(rhs)
    IN  IF l.panicked THEN Panic
        ELSE IF r.panicked THEN Panic
        ELSE Return(unwrap(l.ret) = unwrap(r.ret))

\* PartialEq<T> for SafeIntegral<T>
eq_T(self, rhs) ==
    LET l == get_with_sloc(self)
    IN  IF l.panicked THEN Panic ELSE Return(unwrap(l.ret) = rhs)

\* Ord::cmp of the native width
cmp(a, b) == IF a < b THEN "Less" ELSE IF a = b THEN "Equal" ELSE "Greater"

\* PartialOrd for SafeIntegral<T>
partial_cmp(self, rhs) ==
    LET l == get_with_sloc(self)
        r == get_with_sloc(rhs)
    IN  IF l.panicked THEN Panic
        ELSE IF r.panicked THEN Panic
        ELSE Return(Some(cmp(unwrap(l.ret), unwrap(r.ret))))

\* PartialOrd<T> for SafeIntegral<T>
partial_cmp_T(self, rhs) ==
    LET l == get_with_sloc(self)
    IN  IF l.panicked THEN Panic ELSE Return(Some(cmp(unwrap(l.ret), rhs)))

RelOps == {"==", "!=", "<", ">", "<=", ">="}

\* the operators ==, !=, <, >, <=, >= as the language derives them from
\* eq and partial_cmp
OrderingTest(op, ord) ==
    CASE op = "<"  -> ord = Some("Less")
      [] op = ">"  -> ord = Some("Greater")
      [] op = "<=" -> ord \in {Some("Less"), Some("Equal")}
      [] op = ">=" -> ord \in {Some("Greater"), Some("Equal")}

rel(op, self, rhs) ==
    IF op \in {"==", "!="}
    THEN LET e == eq(self, rhs)
         IN  IF e.panicked THEN Panic
             ELSE Return(IF op = "==" THEN unwrap(e.ret) ELSE ~unwrap(e.ret))
    ELSE LET c == partial_cmp(self, rhs)
         IN  IF c.panicked THEN Panic ELSE Return(OrderingTest(op, unwrap(c.ret)))

rel_T(op, self, rhs) ==
    IF op \in {"==", "!="}
    THEN LET e == eq_T(self, rhs)
         IN  IF e.panicked THEN Panic
             ELSE Return(IF op = "==" THEN unwrap(e.ret) ELSE ~unwrap(e.ret))
    ELSE LET c == partial_cmp_T(self, rhs)
         IN  IF c.panicked THEN Panic ELSE Return(OrderingTest(op, unwrap(c.ret)))

\* max without the validity test of its right operand
max_without_rhs_test(self, rhs) ==
    IF is_invalid(self) THEN Return(failure(self.ty))
    ELSE LET gt == rel(">", self, rhs)
         IN  IF gt.panicked THEN Panic
             ELSE IF unwrap(gt.ret) THEN Return(self)
             ELSE Return(rhs)

max(self, rhs) ==
    IF is_invalid(self) THEN Return(failure(self.ty))
    ELSE IF is_invalid(rhs) THEN Return(failure(self.ty))
    ELSE LET gt == rel(">", self, rhs)
         IN  IF gt.panicked THEN Panic
             ELSE IF unwrap(gt.ret) THEN Return(self)
             ELSE Return(rhs)

min(self, rhs) ==
    IF is_invalid(self) THEN Return(failure(self.ty))
    ELSE IF is_invalid(rhs) THEN Return(failure(self.ty))
    ELSE LET lt == rel("<", self, rhs)
         IN  IF lt.panicked THEN Panic
             ELSE IF unwrap(lt.ret) THEN Return(self)
             ELSE Return(rhs)

\* ------------------------------------------ safe_integral.rs: arithmetic

ArithOps == {"add", "sub", "mul", "div", "rem"}

\* the checked primitive each operator calls
arith_checked(op, t, a, b) ==
    CASE op = "add" -> add_checked(t, a, b)
      [] op = "sub" -> sub_checked(t, a, b)
      [] op = "mul" -> mul_checked(t, a, b)
      [] op = "div" -> div_checked(t, a, b)
      [] op = "rem" -> rem_checked(t, a, b)

\* AddAssign, SubAssign, MulAssign, DivAssign, RemAssign for SafeIntegral<T>
arith_assign(op, self, rhs) ==
    LET r == arith_checked(op, self.ty, self.m_val, rhs.m_val)
    IN  IF is_none(r)
        THEN update_poisoned(self, TRUE)
        ELSE update_poisoned([self EXCEPT !.m_val = unwrap(r)], is_invalid(rhs))

\* AddAssign<T>, SubAssign<T>, MulAssign<T>, DivAssign<T>, RemAssign<T>
arith_assign_T(op, self, rhs) ==
    LET r == arith_checked(op, self.ty, self.m_val, rhs)
    IN  IF is_none(r)
        THEN update_poisoned(self, TRUE)
        ELSE mark_as_unchecked([self EXCEPT !.m_val = unwrap(r)])

\* Add, Sub, Mul, Div, Rem <SafeIntegral<T>>: clone, then the assignment form
arith(op, self, rhs) ==
    LET ret == self
    IN  arith_assign(op, ret, rhs)

\* Add<T>, Sub<T>, Mul<T>, Div<T>, Rem<T>
arith_T(op, self, rhs) ==
    LET ret == self
    IN  arith_assign_T(op, ret, rhs)

\* ----------------------------------------------- safe_integral.rs: shift

ShiftOps == {"shl", "shr"}

shift_wrapping(op, t, a, k) ==
    CASE op = "shl" -> shl_wrapping(t, a, k)
      [] op = "shr" -> shr_wrapping(t, a, k)

\* the shift assignment without the call of mark_as_checked_if_valid
shift_assign_without_marking(op, self, rhs) ==
    update_poisoned([self EXCEPT !.m_val = shift_wrapping(op, self.ty, self.m_val, rhs.m_val)],
                    is_invalid(rhs))

\* ShlAssign, ShrAssign <SafeIntegral<u32>>
shift_assign(op, self, rhs) ==
    LET s1 == [self EXCEPT !.m_val = shift_wrapping(op, self.ty, self.m_val, rhs.m_val)]
        s2 == update_poisoned(s1, is_invalid(rhs))
    IN  mark_as_checked_if_valid(s2)

\* ShlAssign<u32>, ShrAssign<u32>
shift_assign_u32(op, self, rhs) ==
    [self EXCEPT !.m_val = shift_wrapping(op, self.ty, self.m_val, rhs)]

\* Shl, Shr <SafeIntegral<u32>>
shift(op, self, rhs) ==
    LET ret == self
    IN  shift_assign(op, ret, rhs)

\* Shl<u32>, Shr<u32>
shift_u32(op, self, rhs) ==
    LET ret == self
    IN  shift_assign_u32(op, ret, rhs)

\* ---------------------------------------------- safe_integral.rs: binary

BitOps == {"and", "or", "xor"}

\* the bitwise assignment without the poison of its right operand
bit_assign_ignoring_rhs(op, self, rhs) ==
    mark_as_checked_if_valid(
        [self EXCEPT !.m_val = BitOp(op, self.m_val, rhs.m_val, BitsOf(self.ty))])

\* BitAndAssign, BitOrAssign, BitXorAssign for SafeIntegral<T>
bit_assign(op, self, rhs) ==
    LET s1 == [self EXCEPT !.m_val = BitOp(op, self.m_val, rhs.m_val, BitsOf(self.ty))]
        s2 == update_poisoned(s1, is_invalid(rhs))
    IN  mark_as_checked_if_valid(s2)

\* the raw bitwise assignment with the call of mark_as_checked_if_valid
bit_assign_T_marking(op, self, rhs) ==
    mark_as_checked_if_valid(
        [self EXCEPT !.m_val = BitOp(op, self.m_val, rhs, BitsOf(self.ty))])

\* BitAndAssign<T>, BitOrAssign<T>, BitXorAssign<T>
bit_assign_T(op, self, rhs) ==
    [self EXCEPT !.m_val = BitOp(op, self.m_val, rhs, BitsOf(self.ty))]

\* BitAnd, BitOr, BitXor for SafeIntegral<T>
bit(op, self, rhs) ==
    LET ret == self
    IN  bit_assign(op, ret, rhs)

\* BitAnd<T>, BitOr<T>, BitXor<T>
bit_T(op, self, rhs) ==
    LET ret == self
    IN  bit_assign_T(op, ret, rhs)

\* ------------------------------- safe_integral.rs: complement, negation

not(self) ==
    LET ret == self
    IN  [ret EXCEPT !.m_val = BitNot(ret.ty, ret.m_val)]

\* a negation that marks its result unchecked, as the arithmetic operators do
neg_marking_unchecked(self) ==
    LET r == neg_checked(self.ty, self.m_val)
    IN  IF is_none(r)
        THEN update_poisoned(self, TRUE)
        ELSE mark_as_unchecked([self EXCEPT !.m_val = unwrap(r)])

neg(self) ==
    LET ret == self
        r   == neg_checked(self.ty, self.m_val)
    IN  IF is_none(r)
        THEN update_poisoned(ret, TRUE)
        ELSE [ret EXCEPT !.m_val = unwrap(r)]

\* ------------------------------------------------------------ convert.rs

\* IntoSafeIntegral for SafeIntegral<T>
into_safe_integral(self) == self

safe_integral_to_i8(other) ==
    new_from_option_with_flags_from("i8", into_i8(other.ty, other.m_val), other)

safe_integral_to_u8(other) ==
    new_from_option_with_flags_from("u8", into_u8(other.ty, other.m_val), other)

\* safe_integral_to_u8_unsafe with the range test of the checked conversion
safe_integral_to_u8_unsafe_range_tested(other) ==
    new_from_option_with_flags_from("u8", into_u8(other.ty, other.m_val), other)

safe_integral_to_u8_unsafe(other) ==
    new_with_flags_from("u8", into_u8_unsafe(other.ty, other.m_val), other)

to_i8(other) == safe_integral_to_i8(into_safe_integral(other))

to_u8(other) == safe_integral_to_u8(into_safe_integral(other))

to_u8_unsafe(other) == safe_integral_to_u8_unsafe(into_safe_integral(other))

\* ------------------------------------------------- safe_idx.rs: SafeIdx

SafeIdx(val, poisoned) == [ty |-> "idx", m_val |-> val, m_poisoned |-> poisoned]

SafeIdx_update_poisoned(self, poisoned) ==
    [self EXCEPT !.m_poisoned = self.m_poisoned \/ poisoned]

SafeIdx_new(val) == SafeIdx(val, FALSE)

\* new_from that builds the SafeIdx whatever the state of val
SafeIdx_new_from_unasserted(val) ==
    Return(SafeIdx(val.m_val, is_invalid(val)))

\* the assert diverges in a debug build; in a release build the SafeIdx is
\* built with the flag of val
SafeIdx_new_from(val) ==
    IF is_invalid(val) /\ assert("a safe_idx was poisoned") THEN Panic
    ELSE Return(SafeIdx(val.m_val, is_invalid(val)))

IdxConstructors == {"new", "max_value", "min_value", "magic_0", "magic_1", "magic_2", "magic_3"}

SafeIdx_construct(c, k) ==
    CASE c = "new" -> SafeIdx_new(k)
      [] c = "max_value" -> SafeIdx_new(T_max_value("usize"))
      [] c = "min_value" -> SafeIdx_new(T_min_value("usize"))
      [] c = "magic_0" -> SafeIdx_new(0)
      [] c = "magic_1" -> SafeIdx_new(1)
      [] c = "magic_2" -> SafeIdx_new(2)
      [] c = "magic_3" -> SafeIdx_new(3)

\* get_with_sloc without the assert
SafeIdx_get_with_sloc_unasserted(self) == Return(self.m_val)

SafeIdx_get_with_sloc(self) ==
    IF self.m_poisoned /\ assert("a poisoned SafeIntegral was read") THEN Panic
    ELSE Return(self.m_val)

SafeIdx_is_pos(self) ==
    IF self.m_poisoned /\ assert("a poisoned SafeIdx was read") THEN Panic
    ELSE Return(self.m_val > 0)

SafeIdx_is_zero(self) ==
    IF self.m_poisoned /\ assert("a poisoned SafeIdx was read") THEN Panic
    ELSE Return(self.m_val = 0)

\* the read of the right operand that takes the m_val of a SafeUMx as it is
SafeIdx_rhs_unverified(kind, rhs) ==
    CASE kind = "SafeIdx" -> SafeIdx_get_with_sloc(rhs)
      [] kind = "usize" -> Return(rhs)
      [] kind = "SafeUMx" -> Return(rhs.m_val)

\* the read of the right operand of a comparison: rhs.get_with_sloc(sloc) of
\* a SafeIdx or of a SafeUMx, *rhs of a usize
SafeIdx_rhs(kind, rhs) ==
    CASE kind = "SafeIdx" -> SafeIdx_get_with_sloc(rhs)
      [] kind = "usize" -> Return(rhs)
      [] kind = "SafeUMx" -> get_with_sloc(rhs)

\* PartialEq, PartialEq<usize>, PartialEq<SafeUMx> for SafeIdx
SafeIdx_eq(kind, self, rhs) ==
    LET l == SafeIdx_get_with_sloc(self)
        r == SafeIdx_rhs(kind, rhs)
    IN  IF l.panicked THEN Panic
        ELSE IF r.panicked THEN Panic
        ELSE Return(unwrap(l.ret) = unwrap(r.ret))

\* PartialOrd, PartialOrd<usize>, PartialOrd<SafeUMx> for SafeIdx
SafeIdx_partial_cmp(kind, self, rhs) ==
    LET l == SafeIdx_get_with_sloc(self)
        r == SafeIdx_rhs(kind, rhs)
    IN  IF l.panicked THEN Panic
        ELSE IF r.panicked THEN Panic
        ELSE Return(Some(cmp(unwrap(l.ret), unwrap(r.ret))))

SafeIdx_rel(op, kind, self, rhs) ==
    IF op \in {"==", "!="}
    THEN LET e == SafeIdx_eq(kind, self, rhs)
         IN  IF e.panicked THEN Panic
             ELSE Return(IF op = "==" THEN unwrap(e.ret) ELSE ~unwrap(e.ret))
    ELSE LET c == SafeIdx_partial_cmp(kind, self, rhs)
         IN  IF c.panicked THEN Panic ELSE Return(OrderingTest(op, unwrap(c.ret)))

SafeIdx_is_invalid(self) == self.m_poisoned

\* usize::checked_add, usize::checked_sub
usize_checked(op, a, b) ==
    IF op = "add" THEN InRangeOrNone("usize", a + b) ELSE InRangeOrNone("usize", a - b)

\* += and -= that forget the poison of rhs
SafeIdx_arith_assign_ignoring_rhs(op, self, rhs) ==
    LET r == usize_checked(op, self.m_val, rhs.m_val)
    IN  IF is_none(r) THEN SafeIdx_update_poisoned(self, TRUE)
        ELSE [self EXCEPT !.m_val = unwrap(r)]

\* self += rhs, self -= rhs
SafeIdx_arith_assign(op, self, rhs) ==
    LET r == usize_checked(op, self.m_val, rhs.m_val)
    IN  IF is_none(r) THEN SafeIdx_update_poisoned(self, TRUE)
        ELSE SafeIdx_update_poisoned([self EXCEPT !.m_val = unwrap(r)],
                                     SafeIdx_is_invalid(rhs))

\* += k and -= k that store the wrapped result when they poison
SafeIdx_arith_assign_usize_wrapping(op, self, rhs) ==
    LET r == usize_checked(op, self.m_val, rhs)
        w == IF op = "add" THEN self.m_val + rhs ELSE self.m_val - rhs
    IN  IF is_none(r)
        THEN SafeIdx_update_poisoned([self EXCEPT !.m_val = CastAs("usize", w)], TRUE)
        ELSE [self EXCEPT !.m_val = unwrap(r)]

\* self += k, self -= k
SafeIdx_arith_assign_usize(op, self, rhs) ==
    LET r == usize_checked(op, self.m_val, rhs)
    IN  IF is_none(r) THEN SafeIdx_update_poisoned(self, TRUE)
        ELSE [self EXCEPT !.m_val = unwrap(r)]

\* self + rhs, self - rhs: the assignment applied to a copy of self
SafeIdx_arith(op, self, rhs) == SafeIdx_arith_assign(op, self, rhs)

\* self + k, self - k
SafeIdx_arith_usize(op, self, rhs) == SafeIdx_arith_assign_usize(op, self, rhs)

\* ------------------------------------------------- core::fmt of an integer

Traits == {"Display", "Binary", "LowerExp", "LowerHex", "Octal", "UpperExp", "UpperHex"}

LowerDigits == << "0", "1", "2", "3", "4", "5", "6", "7", "8", "9", "a", "b", "c", "d", "e", "f" >>

UpperDigits == << "0", "1", "2", "3", "4", "5", "6", "7", "8", "9", "A", "B", "C", "D", "E", "F" >>

RECURSIVE Digits(_, _, _)
\* the digits of n >= 0 in the radix, most significant first
Digits(n, radix, chars) ==
    IF n < radix THEN << chars[n + 1] >>
    ELSE Append(Digits(n \div radix, radix, chars), chars[(n % radix) + 1])

RECURSIVE StripZeros(_)
\* a digit string without its trailing zeros
StripZeros(ds) ==
    IF Len(ds) > 1 /\ ds[Len(ds)] = "0" THEN StripZeros(SubSeq(ds, 1, Len(ds) - 1)) ELSE ds

RadixOf(trait) ==
    CASE trait = "Binary" -> 2
      [] trait = "Octal" -> 8
      [] trait \in {"LowerHex", "UpperHex"} -> 16
      [] trait \in {"Display", "LowerExp", "UpperExp"} -> 10

\* the text core::fmt writes for val of type t: {:?} writes a sign and decimal
\* digits, the radix traits write the bits of val (two's complement for a
\* negative val), the exponent traits write mantissa, e or E, and exponent
fmt_primitive(trait, t, val) ==
    LET sign == IF val < 0 THEN << "-" >> ELSE << >>
        ds   == Digits(Abs(val), 10, LowerDigits)
        m    == StripZeros(ds)
    IN  CASE trait = "Display" -> sign \o ds
          [] trait \in {"Binary", "Octal", "LowerHex"} ->
                Digits(val % Pow2(BitsOf(t)), RadixOf(trait), LowerDigits)
          [] trait = "UpperHex" ->
                Digits(val % Pow2(BitsOf(t)), RadixOf(trait), UpperDigits)
          [] trait \in {"LowerExp", "UpperExp"} ->
                sign \o << m[1] >> \o (IF Len(m) > 1 THEN << "." >> \o Tail(m) ELSE << >>)
                     \o << IF trait = "LowerExp" THEN "e" ELSE "E" >>
                     \o Digits(Len(ds) - 1, 10, LowerDigits)

ErrorText == << "[", "e", "r", "r", "o", "r", "]" >>

\* fmt that reads m_val without get_with_sloc
fmt_reading_m_val(trait, self) ==
    IF is_invalid(self) THEN Return(ErrorText)
    ELSE Return(fmt_primitive(trait, self.ty, self.m_val))

\* fmt::Display, Binary, LowerExp, LowerHex, Octal, UpperExp, UpperHex for
\* SafeIntegral<T>
fmt(trait, self) ==
    IF is_invalid(self) THEN Return(ErrorText)
    ELSE LET val == get_with_sloc(self)
         IN  IF val.panicked THEN Panic
             ELSE Return(fmt_primitive(trait, self.ty, unwrap(val.ret)))

\* the same traits for SafeIdx
SafeIdx_fmt(trait, self) ==
    IF SafeIdx_is_invalid(self) THEN Return(ErrorText)
    ELSE LET val == SafeIdx_get_with_sloc(self)
         IN  IF val.panicked THEN Panic
             ELSE Return(fmt_primitive(trait, "usize", unwrap(val.ret)))

\* ------------------------------- into_safe_integral.rs, convert.rs: wider

\* IntoSafeIntegral for T
into_safe_integral_T(t, k) == new(t, k)

\* IntoSafeIntegral for SafeIdx without the test of is_invalid()
into_safe_integral_SafeIdx_untested(self) == new("usize", self.m_val)

\* IntoSafeIntegral for SafeIdx
into_safe_integral_SafeIdx(self) ==
    IF SafeIdx_is_invalid(self) THEN failure("usize") ELSE new("usize", self.m_val)

safe_integral_to_i16(other) ==
    new_from_option_with_flags_from("i16", into_i16(other.ty, other.m_val), other)

safe_integral_to_u16(other) ==
    new_from_option_with_flags_from("u16", into_u16(other.ty, other.m_val), other)

safe_integral_to_umx(other) ==
    new_from_option_with_flags_from("usize", into_usize(other.ty, other.m_val), other)

safe_integral_to_u16_unsafe(other) ==
    new_with_flags_from("u16", into_u16_unsafe(other.ty, other.m_val), other)

safe_integral_to_umx_unsafe(other) ==
    new_with_flags_from("usize", into_usize_unsafe(other.ty, other.m_val), other)

to_i16(other) == safe_integral_to_i16(into_safe_integral(other))

to_u16(other) == safe_integral_to_u16(into_safe_integral(other))

to_umx(other) == safe_integral_to_umx(into_safe_integral(other))

to_u16_unsafe(other) == safe_integral_to_u16_unsafe(into_safe_integral(other))

to_umx_unsafe(other) == safe_integral_to_umx_unsafe(into_safe_integral(other))

to_idx(other) == SafeIdx_new_from(to_umx(other))

\* merge_umx_with_u8 without the mask on its upper operand
merge_umx_with_u8_unmasked(upper, lower) ==
    bit("or", into_safe_integral(upper), to_umx(lower))

\* merge_umx_with_u8: mask is 0xFF..00 as usize, every bit set but the low 8
merge_umx_with_u8(upper, lower) ==
    LET mask == to_umx(into_safe_integral_T("usize", T_max_value("usize") - (Pow2(8) - 1)))
    IN  bit("or", bit("and", into_safe_integral(upper), mask), to_umx(lower))

\* merge_umx_with_u16: mask is 0xFF..0000 as usize, every bit set but the low 16
merge_umx_with_u16(upper, lower) ==
    LET mask == to_umx(into_safe_integral_T("usize", T_max_value("usize") - (Pow2(16) - 1)))
    IN  bit("or", bit("and", into_safe_integral(upper), mask), to_umx(lower))

\* the conversion functions by name
ConvertOps == {"to_i8", "to_i16", "to_u8", "to_u16", "to_umx"}

convert(op, other) ==
    CASE op = "to_i8" -> to_i8(other)
      [] op = "to_i16" -> to_i16(other)
      [] op = "to_u8" -> to_u8(other)
      [] op = "to_u16" -> to_u16(other)
      [] op = "to_umx" -> to_umx(other)

\* ------------------------------------------------------------ the inputs

RawInputs(t) ==
    {T_min_value(t), T_max_value(t)}
        \cup {k \in -MaxRaw .. MaxRaw : T_min_value(t) <= k /\ k <= T_max_value(t)}

\* the SafeIntegral<T> values a binary operator meets as its other operand: a
\* fresh new(k), the unchecked 1 + 0, the poisoned 1 / 0, and failure()
OperandsOf(t) ==
    {new(t, k) : k \in RawInputs(t)}
        \cup {arith_T("add", magic_1(t), 0), arith_T("div", magic_1(t), 0), failure(t)}

\* shift amounts: below, at and above the bit width of the shifted value
ShiftAmounts == (0 .. MaxRaw) \cup {BitsOf("u8"), BitsOf("u8") + 1}

\* a large amount, far above every width: its low 30 bits are set, as those of
\* u32::MAX are, so it leaves the remainder w - 1 in every width w that is a
\* power of two
LargeShift == 1073741823

\* the raw u32 shift amounts
RawShiftAmounts == ShiftAmounts \cup {LargeShift}

\* the SafeIntegral<u32> shift amounts: a fresh new(k), and the states that
\* 1 + 0, 1 / 0 and failure() leave a value in
ShiftOperands ==
    {new("u32", k) : k \in ShiftAmounts}
        \cup {mark_as_unchecked(magic_1("u32")), update_poisoned(magic_1("u32"), TRUE),
              failure("u32")}

NoOperand == SafeIntegral("none", 0, FALSE, FALSE)

\* no Finally guard was made
\* guards: the Finally values made so far; live: whether each is still to be
\* dropped; ignored: whether ignore() was called on it; calls: how often its
\* function ran; executed: the Cell the function sets in finally_general
NoGuards ==
    [guards |-> << >>, live |-> << >>, ignored |-> << >>, calls |-> << >>,
     executed |-> FALSE]

\* a call that returns nothing, or whose result is stored in v
Done == [panicked |-> FALSE, ret |-> << >>]

\* the record of the last operation: its name and form, the operand it took
\* besides v (a SafeIntegral or a raw integer) and on which side v stood,
\* and its outcome
Log(op, form, side, other, raw, out) ==
    [op |-> op, form |-> form, side |-> side, other |-> other, raw |-> raw,
     panicked |-> out.panicked, ret |-> out.ret]

\* where the value of v comes from
Prov(kind, val) == [kind |-> kind, val |-> val]

Constructors(t) ==
    {"new", "make_safe", "default", "max_value", "min_value",
     "magic_0", "magic_1", "magic_2", "magic_3"}
        \cup (IF t \in SignedTypes THEN {"magic_neg_1", "magic_neg_2", "magic_neg_3"} ELSE {})

\* the raw values a constructor is called with
ConstructorInputs(c, t) == IF c \in {"new", "make_safe"} THEN RawInputs(t) ELSE {0}

construct(c, t, k) ==
    CASE c = "new" -> new(t, k)
      [] c = "make_safe" -> make_safe(t, k)
      [] c = "default" -> default(t)
      [] c = "max_value" -> max_value(t)
      [] c = "min_value" -> min_value(t)
      [] c = "magic_0" -> magic_0(t)
      [] c = "magic_1" -> magic_1(t)
      [] c = "magic_2" -> magic_2(t)
      [] c = "magic_3" -> magic_3(t)
      [] c = "magic_neg_1" -> magic_neg_1(t)
      [] c = "magic_neg_2" -> magic_neg_2(t)
      [] c = "magic_neg_3" -> magic_neg_3(t)

\* the value each constructor is documented to hold
ConstructedValue(c, t, k) ==
    CASE c \in {"new", "make_safe"} -> k
      [] c = "default" -> 0
      [] c = "max_value" -> IF t \in SignedTypes THEN Pow2(BitsOf(t) - 1) - 1 ELSE Pow2(BitsOf(t)) - 1
      [] c = "min_value" -> IF t \in SignedTypes THEN -Pow2(BitsOf(t) - 1) ELSE 0
      [] c = "magic_0" -> 0
      [] c = "magic_1" -> 1
      [] c = "magic_2" -> 2
      [] c = "magic_3" -> 3
      [] c = "magic_neg_1" -> -1
      [] c = "magic_neg_2" -> -2
      [] c = "magic_neg_3" -> -3

\* the exact quotient, truncated toward zero, by its defining property
ExactQuot(a, b) ==
    CHOOSE q \in -Abs(a) .. Abs(a) :
        /\ Abs(q) * Abs(b) <= Abs(a)
        /\ (Abs(q) + 1) * Abs(b) > Abs(a)
        /\ (q > 0 => (a > 0) = (b > 0))
        /\ (q < 0 => (a > 0) # (b > 0))

\* the exact result of an arithmetic operator on unbounded integers
ExactResult(op, a, b) ==
    CASE op = "add" -> a + b
      [] op = "sub" -> a - b
      [] op = "mul" -> a * b
      [] op = "div" -> ExactQuot(a, b)
      [] op = "rem" -> a - b * ExactQuot(a, b)

\* the operation has an exact result and it fits the type
Representable(op, t, a, b) ==
    IF op \in {"div", "rem"}
    THEN /\ b # 0
         /\ T_min_value(t) <= ExactQuot(a, b)
         /\ ExactQuot(a, b) <= T_max_value(t)
    ELSE /\ T_min_value(t) <= ExactResult(op, a, b)
         /\ ExactResult(op, a, b) <= T_max_value(t)

\* ----------------------------------------------------------- the machine

\* the values a run starts from: v and idx freshly constructed
InitValues ==
    /\ \/ \E t \in Types : \E c \in Constructors(t) : \E k \in ConstructorInputs(c, t) :
             /\ v = construct(c, t, k)
             /\ prov = Prov("ctor", ConstructedValue(c, t, k))
             /\ last = Log(c, "ctor", "none", NoOperand, k, Done)
       \/ \E t \in Types :
             /\ v = failure(t)
             /\ prov = Prov("failure", 0)
             /\ last = Log("failure", "ctor", "none", NoOperand, 0, Done)
    /\ idx = SafeIdx_construct("magic_0", 0)
    /\ steps = 0
    /\ done = FALSE

\* a debug build
Init ==
    /\ debug_assertions = TRUE
    /\ InitValues
    /\ twin = NoOperand
    /\ fin = NoGuards

\* a release build
InitRelease ==
    /\ debug_assertions = FALSE
    /\ InitValues
    /\ twin = NoOperand
    /\ fin = NoGuards

\* a debug build in which v is new(a) for any integer a of an 8-bit type
InitChecked ==
    /\ debug_assertions = TRUE
    /\ \E t \in Types : \E a \in T_min_value(t) .. T_max_value(t) :
          /\ v = new(t, a)
          /\ prov = Prov("ctor", a)
          /\ last = Log("new", "ctor", "none", NoOperand, a, Done)
    /\ idx = SafeIdx_construct("magic_0", 0)
    /\ steps = 0
    /\ done = FALSE
    /\ twin = NoOperand
    /\ fin = NoGuards

\* a call that counts as a step; p: the call panicked, which ends the run
Step(p) ==
    /\ ~done
    /\ steps < MaxSteps
    /\ steps' = steps + 1
    /\ done' = p
    /\ UNCHANGED << debug_assertions, twin, fin >>

\* an operation that assigns to v; p: the call panicked, which ends the run
TickOrPanic(p) ==
    /\ Step(p)
    /\ UNCHANGED idx

\* an operation that assigns to idx
IdxTickOrPanic(p) ==
    /\ Step(p)
    /\ UNCHANGED << v, prov >>

Tick == TickOrPanic(FALSE)

\* a read of v: it leaves v as it is and ends the run
Observe ==
    /\ ~done
    /\ done' = TRUE
    /\ UNCHANGED << debug_assertions, v, idx, prov, steps, twin, fin >>

\* v = SafeIntegral::<T>::new(k), default(), make_safe(k), magic_*(), ...
Construct ==
    /\ Tick
    /\ \E t \in Types : \E c \in Constructors(t) : \E k \in ConstructorInputs(c, t) :
          /\ v' = construct(c, t, k)
          /\ prov' = Prov("ctor", ConstructedValue(c, t, k))
          /\ last' = Log(c, "ctor", "none", NoOperand, k, Done)

\* v = SafeIntegral::<T>::failure()
Failure ==
    /\ Tick
    /\ \E t \in Types :
          /\ v' = failure(t)
          /\ prov' = Prov("failure", 0)
          /\ last' = Log("failure", "ctor", "none", NoOperand, 0, Done)

\* the operators exercised in a width: products, quotients and remainders are
\* computed in the 8-bit widths
ArithOpsOf(t) == IF t \in Types THEN ArithOps ELSE {"add", "sub"}

\* the provenance of an arithmetic result: "arith" when both operands were
\* valid and the exact result fits
ArithProv(op, a, b, bval) ==
    IF ~a.m_poisoned /\ ~b.m_poisoned /\ Representable(op, a.ty, a.m_val, bval)
    THEN Prov("arith", ExactResult(op, a.m_val, bval))
    ELSE Prov("other", 0)

\* v op= rhs
ArithAssign ==
    /\ Tick
    /\ \E op \in ArithOpsOf(v.ty) : \E rhs \in OperandsOf(v.ty) :
          /\ v' = arith_assign(op, v, rhs)
          /\ prov' = ArithProv(op, v, rhs, rhs.m_val)
          /\ last' = Log(op, "assign", "lhs", rhs, 0, Done)

\* v op= k
ArithAssignT ==
    /\ Tick
    /\ \E op \in ArithOpsOf(v.ty) : \E k \in RawInputs(v.ty) :
          /\ v' = arith_assign_T(op, v, k)
          /\ prov' = ArithProv(op, v, NoOperand, k)
          /\ last' = Log(op, "assign_T", "lhs", NoOperand, k, Done)

\* v = v op o, v = o op v
Arith ==
    /\ Tick
    /\ \E op \in ArithOpsOf(v.ty) : \E o \in OperandsOf(v.ty) : \E side \in {"lhs", "rhs"} :
          LET a == IF side = "lhs" THEN v ELSE o
              b == IF side = "lhs" THEN o ELSE v
          IN  /\ v' = arith(op, a, b)
              /\ prov' = ArithProv(op, a, b, b.m_val)
              /\ last' = Log(op, "binary", side, o, 0, Done)

\* v = v op k
ArithT ==
    /\ Tick
    /\ \E op \in ArithOpsOf(v.ty) : \E k \in RawInputs(v.ty) :
          /\ v' = arith_T(op, v, k)
          /\ prov' = ArithProv(op, v, NoOperand, k)
          /\ last' = Log(op, "binary_T", "lhs", NoOperand, k, Done)

\* v <<= r, v >>= r
ShiftAssign ==
    /\ Tick
    /\ v.ty \in UnsignedTypes
    /\ \E op \in ShiftOps : \E r \in ShiftOperands :
          /\ v' = shift_assign(op, v, r)
          /\ prov' = Prov("other", 0)
          /\ last' = Log(op, "assign", "lhs", r, 0, Done)

\* v <<= k, v >>= k
ShiftAssignU32 ==
    /\ Tick
    /\ v.ty \in UnsignedTypes
    /\ \E op \in ShiftOps : \E k \in RawShiftAmounts :
          /\ v' = shift_assign_u32(op, v, k)
          /\ prov' = Prov("other", 0)
          /\ last' = Log(op, "assign_T", "lhs", NoOperand, k, Done)

\* v = v << r, v = v >> r
Shift ==
    /\ Tick
    /\ v.ty \in UnsignedTypes
    /\ \E op \in ShiftOps : \E r \in ShiftOperands :
          /\ v' = shift(op, v, r)
          /\ prov' = Prov("other", 0)
          /\ last' = Log(op, "binary", "lhs", r, 0, Done)

\* v = v << k, v = v >> k
ShiftU32 ==
    /\ Tick
    /\ v.ty \in UnsignedTypes
    /\ \E op \in ShiftOps : \E k \in RawShiftAmounts :
          /\ v' = shift_u32(op, v, k)
          /\ prov' = Prov("other", 0)
          /\ last' = Log(op, "binary_T", "lhs", NoOperand, k, Done)

\* v &= rhs, v |= rhs, v ^= rhs
BitAssign ==
    /\ Tick
    /\ v.ty \in UnsignedTypes
    /\ \E op \in BitOps : \E rhs \in OperandsOf(v.ty) :
          /\ v' = bit_assign(op, v, rhs)
          /\ prov' = Prov("other", 0)
          /\ last' = Log(op, "assign", "lhs", rhs, 0, Done)

\* v &= k, v |= k, v ^= k
BitAssignT ==
    /\ Tick
    /\ v.ty \in UnsignedTypes
    /\ \E op \in BitOps : \E k \in RawInputs(v.ty) :
          /\ v' = bit_assign_T(op, v, k)
          /\ prov' = Prov("other", 0)
          /\ last' = Log(op, "assign_T", "lhs", NoOperand, k, Done)

\* v = v & o, v = o & v, ...
Bit ==
    /\ Tick
    /\ v.ty \in UnsignedTypes
    /\ \E op \in BitOps : \E o \in OperandsOf(v.ty) : \E side \in {"lhs", "rhs"} :
          LET a == IF side = "lhs" THEN v ELSE o
              b == IF side = "lhs" THEN o ELSE v
          IN  /\ v' = bit(op, a, b)
              /\ prov' = Prov("other", 0)
              /\ last' = Log(op, "binary", side, o, 0, Done)

\* v = v & k, ...
BitT ==
    /\ Tick
    /\ v.ty \in UnsignedTypes
    /\ \E op \in BitOps : \E k \in RawInputs(v.ty) :
          /\ v' = bit_T(op, v, k)
          /\ prov' = Prov("other", 0)
          /\ last' = Log(op, "binary_T", "lhs", NoOperand, k, Done)

\* v = !v
Not ==
    /\ Tick
    /\ v.ty \in UnsignedTypes
    /\ v' = not(v)
    /\ prov' = Prov("other", 0)
    /\ last' = Log("not", "unary", "lhs", NoOperand, 0, Done)

\* v = -v
Neg ==
    /\ Tick
    /\ v.ty \in SignedTypes
    /\ v' = neg(v)
    /\ prov' = Prov("other", 0)
    /\ last' = Log("neg", "unary", "lhs", NoOperand, 0, Done)

\* the provenance of to_X(v): "conv2" when v is itself to_Y(n) of a raw n
ConvProv == IF prov.kind = "conv" THEN Prov("conv2", prov.val) ELSE Prov("other", 0)

\* v = to_i8(v)
ToI8 ==
    /\ Tick
    /\ v' = to_i8(v)
    /\ prov' = ConvProv
    /\ last' = Log("to_i8", "convert", "lhs", NoOperand, 0, Done)

\* v = to_u8(v)
ToU8 ==
    /\ Tick
    /\ v' = to_u8(v)
    /\ prov' = ConvProv
    /\ last' = Log("to_u8", "convert", "lhs", NoOperand, 0, Done)

\* v = to_u8_unsafe(v)
ToU8Unsafe ==
    /\ Tick
    /\ v.ty \in UnsignedTypes
    /\ v' = to_u8_unsafe(v)
    /\ prov' = Prov("other", 0)
    /\ last' = Log("to_u8_unsafe", "convert", "lhs", NoOperand, 0, Done)

\* the provenance after the poison of v was probed
ProbedProv ==
    IF v.m_poisoned THEN Prov("poison_probed", 0)
    ELSE IF prov.kind \in {"arith", "arith_probed"} THEN Prov("arith_probed", prov.val)
    ELSE Prov("other", 0)

\* v.is_poisoned()
IsPoisoned ==
    /\ Tick
    /\ v' = is_poisoned(v).self
    /\ prov' = ProbedProv
    /\ last' = Log("is_poisoned", "probe", "lhs", NoOperand, 0, Return(is_poisoned(v).ret))

\* v.is_zero_or_poisoned()
IsZeroOrPoisoned ==
    /\ Tick
    /\ v' = is_zero_or_poisoned(v).self
    /\ prov' = ProbedProv
    /\ last' = Log("is_zero_or_poisoned", "probe", "lhs", NoOperand, 0,
                   Return(is_zero_or_poisoned(v).ret))

\* v = v.checked()
CheckedAssign ==
    LET out == checked(v)
    IN  /\ TickOrPanic(out.panicked)
        /\ v' = IF out.panicked THEN v ELSE unwrap(out.ret)
        /\ prov' = IF out.panicked THEN prov ELSE Prov("other", 0)
        /\ last' = Log("checked", "unary", "lhs", NoOperand, 0,
                       IF out.panicked THEN Panic ELSE Done)

\* v = v.max(o), v = o.max(v), v = v.min(o), v = o.min(v)
MaxMin ==
    \E op \in {"max", "min"} : \E o \in OperandsOf(v.ty) : \E side \in {"lhs", "rhs"} :
        LET a   == IF side = "lhs" THEN v ELSE o
            b   == IF side = "lhs" THEN o ELSE v
            out == IF op = "max" THEN max(a, b) ELSE min(a, b)
        IN  /\ TickOrPanic(out.panicked)
            /\ v' = IF out.panicked THEN v ELSE unwrap(out.ret)
            /\ prov' = IF out.panicked THEN prov ELSE Prov("other", 0)
            /\ last' = Log(op, "binary", side, o, 0, IF out.panicked THEN Panic ELSE Done)

\* v.get()
Get ==
    /\ Observe
    /\ last' = Log("get", "read", "lhs", NoOperand, 0, get(v))

\* v.is_pos()
IsPos ==
    /\ Observe
    /\ last' = Log("is_pos", "read", "lhs", NoOperand, 0, is_pos(v))

\* v.is_neg()
IsNeg ==
    /\ Observe
    /\ v.ty \in SignedTypes
    /\ last' = Log("is_neg", "read", "lhs", NoOperand, 0, is_neg(v))

\* v.is_zero()
IsZero ==
    /\ Observe
    /\ last' = Log("is_zero", "read", "lhs", NoOperand, 0, is_zero(v))

\* v == o, o == v, v < o, o < v, ...
Compare ==
    /\ Observe
    /\ \E op \in RelOps : \E o \in OperandsOf(v.ty) : \E side \in {"lhs", "rhs"} :
          LET a == IF side = "lhs" THEN v ELSE o
              b == IF side = "lhs" THEN o ELSE v
          IN  last' = Log(op, "compare", side, o, 0, rel(op, a, b))

\* v == k, v < k, ...
CompareT ==
    /\ Observe
    /\ \E op \in RelOps : \E k \in RawInputs(v.ty) :
          last' = Log(op, "compare_T", "lhs", NoOperand, k, rel_T(op, v, k))

PureQueries ==
    {"is_invalid", "is_valid", "is_zero_or_invalid", "is_unchecked", "is_checked",
     "is_valid_and_checked"}

query(q, self) ==
    CASE q = "is_invalid" -> is_invalid(self)
      [] q = "is_valid" -> is_valid(self)
      [] q = "is_zero_or_invalid" -> is_zero_or_invalid(self)
      [] q = "is_unchecked" -> is_unchecked(self)
      [] q = "is_checked" -> is_checked(self)
      [] q = "is_valid_and_checked" -> is_valid_and_checked(self)

\* v.is_invalid(), v.is_valid(), v.is_checked(), ...
Query ==
    /\ Tick
    /\ v' = v
    /\ prov' = prov
    /\ \E q \in PureQueries :
          last' = Log(q, "query", "lhs", NoOperand, 0, Return(query(q, v)))

\* v.checked().get(): the result of checked() is read, v is not assigned
CheckedGet ==
    LET out == checked(v)
    IN  /\ Observe
        /\ last' = Log("checked", "checked_get", "lhs", NoOperand, 0,
                       IF out.panicked THEN Panic ELSE get(unwrap(out.ret)))

\* the raw integers of every width, as into_safe_integral() hands them on
RawSources == UNION {{into_safe_integral_T(t, k) : k \in RawInputs(t)} : t \in Types \cup WideTypes}

\* the results of k + 0 and k + 1: unchecked, and poisoned where k is the maximum
UncheckedSources == UNION {{arith_T("add", s, j) : j \in 0 .. 1} : s \in RawSources}

\* v = to_i16(v), v = to_u16(v), v = to_umx(v)
ToWide ==
    /\ Tick
    /\ \E op \in {"to_i16", "to_u16", "to_umx"} :
          /\ v' = convert(op, v)
          /\ prov' = ConvProv
          /\ last' = Log(op, "convert", "lhs", NoOperand, 0, Done)

\* v = to_X(k) for a raw integer k of any width
ToFromT ==
    /\ Tick
    /\ \E op \in ConvertOps : \E src \in RawSources :
          /\ v' = convert(op, src)
          /\ prov' = Prov("conv", src.m_val)
          /\ last' = Log(op, "convert_T", "lhs", src, src.m_val, Done)

\* v = to_X(idx)
ToFromIdx ==
    /\ Tick
    /\ \E op \in ConvertOps :
          /\ v' = convert(op, into_safe_integral_SafeIdx(idx))
          /\ prov' = Prov("other", 0)
          /\ last' = Log(op, "convert_idx", "lhs", idx, 0, Done)

\* v = to_u8_unsafe(src), v = to_u16_unsafe(src), v = to_umx_unsafe(src) for an
\* unsigned src: v itself, a raw integer k, or the unchecked or poisoned k + j
ToUnsafe ==
    /\ Tick
    /\ \E src \in {s \in {v} \cup RawSources \cup UncheckedSources : s.ty \in UnsignedTypes} :
          /\ \/ /\ v' = to_u8_unsafe(src)
                /\ last' = Log("to_u8_unsafe", "convert_unsafe", "lhs", src, BitsOf("u8"), Done)
             \/ /\ v' = to_u16_unsafe(src)
                /\ last' = Log("to_u16_unsafe", "convert_unsafe", "lhs", src, BitsOf("u16"), Done)
             \/ /\ v' = to_umx_unsafe(src)
                /\ last' = Log("to_umx_unsafe", "convert_unsafe", "lhs", src, BitsOf("usize"), Done)
          /\ prov' = Prov("other", 0)

\* a.add_checked(b), a.sub_checked(b), a.mul_checked(b), a.div_checked(b) and
\* a.rem_checked(b), for the integer a a new value was constructed from and
\* any integer b of its type
CheckedPrimitive ==
    /\ Observe
    /\ prov.kind = "ctor"
    /\ \E op \in ArithOps : \E b \in T_min_value(v.ty) .. T_max_value(v.ty) :
          last' = Log(op, "primitive", "lhs", NoOperand, b,
                      Return(arith_checked(op, v.ty, prov.val, b)))

\* v.cdata_as_ref().into_i8(), into_i16(), into_u8(), into_u16(), into_usize()
IntoProbe ==
    /\ Observe
    /\ \/ last' = Log("into_i8", "into", "lhs", NoOperand, v.m_val,
                       Return(into_i8(v.ty, v.m_val)))
       \/ last' = Log("into_i16", "into", "lhs", NoOperand, v.m_val,
                       Return(into_i16(v.ty, v.m_val)))
       \/ last' = Log("into_u8", "into", "lhs", NoOperand, v.m_val,
                       Return(into_u8(v.ty, v.m_val)))
       \/ last' = Log("into_u16", "into", "lhs", NoOperand, v.m_val,
                       Return(into_u16(v.ty, v.m_val)))
       \/ last' = Log("into_usize", "into", "lhs", NoOperand, v.m_val,
                       Return(into_usize(v.ty, v.m_val)))

\* v = merge_umx_with_u8(v, lower), v = merge_umx_with_u16(v, lower)
MergeUMx ==
    /\ Tick
    /\ v.ty = "usize"
    /\ \/ \E lower \in OperandsOf("u8") :
              /\ v' = merge_umx_with_u8(v, lower)
              /\ last' = Log("merge_umx_with_u8", "merge", "lhs", lower, 8, Done)
       \/ \E lower \in OperandsOf("u16") :
              /\ v' = merge_umx_with_u16(v, lower)
              /\ last' = Log("merge_umx_with_u16", "merge", "lhs", lower, 16, Done)
    /\ prov' = Prov("other", 0)

\* idx = to_idx(v), idx = to_idx(k), idx = to_idx(idx)
ToIdx ==
    \E src \in {v, into_safe_integral_SafeIdx(idx)} \cup RawSources :
        LET out == to_idx(src)
        IN  /\ IdxTickOrPanic(out.panicked)
            /\ idx' = IF out.panicked THEN idx ELSE unwrap(out.ret)
            /\ last' = Log("to_idx", "to_idx", "lhs", src, 0,
                           IF out.panicked THEN Panic ELSE Done)

\* idx = SafeIdx::new_from(s, here())
NewFrom ==
    \E s \in OperandsOf("usize") :
        LET out == SafeIdx_new_from(s)
        IN  /\ IdxTickOrPanic(out.panicked)
            /\ idx' = IF out.panicked THEN idx ELSE unwrap(out.ret)
            /\ last' = Log("new_from", "to_idx", "lhs", s, 0,
                           IF out.panicked THEN Panic ELSE Done)

\* idx = SafeIdx::new(k), SafeIdx::max_value(), SafeIdx::magic_1(), ...
IdxConstruct ==
    /\ IdxTickOrPanic(FALSE)
    /\ \E c \in IdxConstructors : \E k \in (IF c = "new" THEN RawInputs("usize") ELSE {0}) :
          /\ idx' = SafeIdx_construct(c, k)
          /\ last' = Log(c, "idx_ctor", "none", NoOperand, k, Done)

\* the SafeIdx values an operator meets as its other operand: new(k) and the
\* poisoned max_value() + magic_1()
IdxOperands ==
    {SafeIdx_new(k) : k \in RawInputs("usize")}
        \cup {SafeIdx_arith("add", SafeIdx_new(T_max_value("usize")), SafeIdx_new(1))}

\* idx += o, idx -= o
IdxArithAssign ==
    /\ IdxTickOrPanic(FALSE)
    /\ \E op \in {"add", "sub"} : \E o \in IdxOperands :
          /\ idx' = SafeIdx_arith_assign(op, idx, o)
          /\ last' = Log(op, "idx_assign", "lhs", o, 0, Done)

\* idx += k, idx -= k
IdxArithAssignUsize ==
    /\ IdxTickOrPanic(FALSE)
    /\ \E op \in {"add", "sub"} : \E k \in RawInputs("usize") :
          /\ idx' = SafeIdx_arith_assign_usize(op, idx, k)
          /\ last' = Log(op, "idx_assign_T", "lhs", NoOperand, k, Done)

\* idx = idx + o, idx = o + idx, idx = idx - o, idx = o - idx
IdxArith ==
    /\ IdxTickOrPanic(FALSE)
    /\ \E op \in {"add", "sub"} : \E o \in IdxOperands : \E side \in {"lhs", "rhs"} :
          LET a == IF side = "lhs" THEN idx ELSE o
              b == IF side = "lhs" THEN o ELSE idx
          IN  /\ idx' = SafeIdx_arith(op, a, b)
              /\ last' = Log(op, "idx_binary", side, o, 0, Done)

\* idx = idx + k, idx = idx - k
IdxArithUsize ==
    /\ IdxTickOrPanic(FALSE)
    /\ \E op \in {"add", "sub"} : \E k \in RawInputs("usize") :
          /\ idx' = SafeIdx_arith_usize(op, idx, k)
          /\ last' = Log(op, "idx_binary_T", "lhs", NoOperand, k, Done)

\* idx.get()
IdxGet ==
    /\ Observe
    /\ last' = Log("get", "idx_read", "lhs", NoOperand, 0, SafeIdx_get_with_sloc(idx))

\* idx.is_pos()
IdxIsPos ==
    /\ Observe
    /\ last' = Log("is_pos", "idx_read", "lhs", NoOperand, 0, SafeIdx_is_pos(idx))

\* idx.is_zero()
IdxIsZero ==
    /\ Observe
    /\ last' = Log("is_zero", "idx_read", "lhs", NoOperand, 0, SafeIdx_is_zero(idx))

\* idx == o, idx < o, ... with a SafeIdx o
IdxCompare ==
    /\ Observe
    /\ \E op \in RelOps : \E o \in IdxOperands :
          last' = Log(op, "idx_compare", "lhs", o, 0, SafeIdx_rel(op, "SafeIdx", idx, o))

\* idx == k, idx < k, ... with a raw usize k
IdxCompareUsize ==
    /\ Observe
    /\ \E op \in RelOps : \E k \in RawInputs("usize") :
          last' = Log(op, "idx_compare_T", "lhs", NoOperand, k,
                      SafeIdx_rel(op, "usize", idx, k))

\* idx == s, idx < s, ... with a SafeUMx s
IdxCompareUMx ==
    /\ Observe
    /\ \E op \in RelOps : \E s \in OperandsOf("usize") :
          last' = Log(op, "idx_compare_umx", "lhs", s, 0, SafeIdx_rel(op, "SafeUMx", idx, s))

\* format!("{}", v), format!("{:b}", v), format!("{:e}", v), ...
Format ==
    /\ Observe
    /\ \E trait \in Traits :
          last' = Log(trait, "fmt", "lhs", NoOperand, 0, fmt(trait, v))

\* format!("{}", idx), format!("{:b}", idx), format!("{:e}", idx), ...
IdxFormat ==
    /\ Observe
    /\ \E trait \in Traits :
          last' = Log(trait, "idx_fmt", "lhs", NoOperand, 0, SafeIdx_fmt(trait, idx))

Next ==
    \/ Construct
    \/ Failure
    \/ ArithAssign
    \/ ArithAssignT
    \/ Arith
    \/ ArithT
    \/ ShiftAssign
    \/ ShiftAssignU32
    \/ Shift
    \/ ShiftU32
    \/ BitAssign
    \/ BitAssignT
    \/ Bit
    \/ BitT
    \/ Not
    \/ Neg
    \/ ToI8
    \/ ToU8
    \/ ToU8Unsafe
    \/ IsPoisoned
    \/ IsZeroOrPoisoned
    \/ CheckedAssign
    \/ MaxMin
    \/ Get
    \/ IsPos
    \/ IsNeg
    \/ IsZero
    \/ Compare
    \/ CompareT
    \/ Query
    \/ CheckedGet
    \/ ToWide
    \/ ToFromT
    \/ Format

\* the operations of SafeIdx and of the conversion layer, with the operations
\* of SafeIntegral that bring v into each of its states
NextIdx ==
    \/ Construct
    \/ Failure
    \/ ArithT
    \/ IsPoisoned
    \/ ToI8
    \/ ToU8
    \/ ToWide
    \/ ToFromT
    \/ ToFromIdx
    \/ ToIdx
    \/ NewFrom
    \/ IdxConstruct
    \/ IdxArithAssign
    \/ IdxArithAssignUsize
    \/ IdxArith
    \/ IdxArithUsize
    \/ Get
    \/ IdxGet
    \/ IdxIsPos
    \/ IdxIsZero
    \/ IdxCompare
    \/ IdxCompareUsize
    \/ IdxCompareUMx
    \/ Format
    \/ IdxFormat

\* the conversion layer: what the to_X, to_X_unsafe and merge functions meet
NextConv ==
    \/ Construct
    \/ Failure
    \/ ArithT
    \/ ToI8
    \/ ToU8
    \/ ToWide
    \/ ToFromT
    \/ ToFromIdx
    \/ ToUnsafe
    \/ MergeUMx
    \/ IntoProbe
    \/ Get

\* ------------------------------------------- the two builds side by side

\* the operands of a call as the program text names them: new(k), the sum
\* 1 + 0, the quotient 1 / 0 and failure(); each build evaluates them itself
OperandCodes(t) ==
    {[kind |-> "new", k |-> k] :
        k \in IF t = "u32" THEN {1, BitsOf("u8") + 1} ELSE {T_max_value(t)}}
        \cup {[kind |-> c, k |-> 0] : c \in {"sum", "quot", "failure"}}

Operand(t, c) ==
    CASE c.kind = "new" -> new(t, c.k)
      [] c.kind = "sum" -> IF t = "u32" THEN mark_as_unchecked(magic_1(t))
                           ELSE arith_T("add", magic_1(t), 0)
      [] c.kind = "quot" -> IF t = "u32" THEN update_poisoned(magic_1(t), TRUE)
                            ELSE arith_T("div", magic_1(t), 0)
      [] c.kind = "failure" -> failure(t)

NoCode == [kind |-> "none", k |-> 0]

Call(form, op, t, c, k) == [form |-> form, op |-> op, t |-> t, c |-> c, k |-> k]

\* the calls that can be made on a value x
Calls(x) ==
    {Call("ctor", c, t, NoCode, k) :
        c \in {"new", "max_value", "min_value", "magic_1"}, t \in Types, k \in {0}}
        \cup {Call("failure", "failure", t, NoCode, 0) : t \in Types}
        \cup {Call("assign", op, x.ty, c, 0) : op \in ArithOpsOf(x.ty), c \in OperandCodes(x.ty)}
        \cup {Call("binary_T", op, x.ty, NoCode, k) : op \in ArithOpsOf(x.ty), k \in RawInputs(x.ty)}
        \cup (IF x.ty \in UnsignedTypes
              THEN {Call("assign", op, x.ty, c, 0) : op \in ShiftOps, c \in OperandCodes("u32")}
                     \cup {Call("binary_T", op, x.ty, NoCode, k) : op \in ShiftOps, k \in ShiftAmounts}
                     \cup {Call("assign", op, x.ty, c, 0) : op \in BitOps, c \in OperandCodes(x.ty)}
                     \cup {Call("binary_T", op, x.ty, NoCode, k) : op \in BitOps, k \in RawInputs(x.ty)}
                     \cup {Call("unary", "not", x.ty, NoCode, 0)}
              ELSE {Call("unary", "neg", x.ty, NoCode, 0)})
        \cup {Call("convert", op, x.ty, NoCode, 0) : op \in ConvertOps}
        \cup {Call("unary", op, x.ty, NoCode, 0) : op \in {"is_poisoned", "checked"}}

\* x after the call, in the build that runs it
Apply(call, x) ==
    CASE call.form = "ctor" -> Return(construct(call.op, call.t, call.k))
      [] call.form = "failure" -> Return(failure(call.t))
      [] call.form = "assign" /\ call.op \in ArithOps ->
            Return(arith_assign(call.op, x, Operand(x.ty, call.c)))
      [] call.form = "binary_T" /\ call.op \in ArithOps ->
            Return(arith_T(call.op, x, call.k))
      [] call.form = "assign" /\ call.op \in ShiftOps ->
            Return(shift_assign(call.op, x, Operand("u32", call.c)))
      [] call.form = "binary_T" /\ call.op \in ShiftOps ->
            Return(shift_u32(call.op, x, call.k))
      [] call.form = "assign" /\ call.op \in BitOps ->
            Return(bit_assign(call.op, x, Operand(x.ty, call.c)))
      [] call.form = "binary_T" /\ call.op \in BitOps ->
            Return(bit_T(call.op, x, call.k))
      [] call.op = "not" -> Return(not(x))
      [] call.op = "neg" -> Return(neg(x))
      [] call.form = "convert" -> Return(convert(call.op, x))
      [] call.op = "is_poisoned" -> Return(is_poisoned(x).self)
      [] call.op = "checked" -> checked(x)

\* the debug build makes a call on v; the release build is to make it next
PairDebug ==
    /\ debug_assertions
    /\ ~done
    /\ steps < MaxSteps
    /\ \E call \in Calls(v) :
          LET out == Apply(call, v)
          IN  /\ v' = IF out.panicked THEN v ELSE unwrap(out.ret)
              /\ done' = out.panicked
              /\ prov' = Prov("call", call)
              /\ last' = Log(call.op, call.form, "lhs", NoOperand, 0,
                             IF out.panicked THEN Panic ELSE Done)
    /\ steps' = steps + 1
    /\ debug_assertions' = FALSE
    /\ UNCHANGED << idx, twin, fin >>

\* the release build makes the same call on its own value
PairRelease ==
    /\ ~debug_assertions
    /\ prov.kind = "call"
    /\ LET out == Apply(prov.val, twin)
       IN  /\ twin' = IF out.panicked THEN twin ELSE unwrap(out.ret)
           /\ last' = [last EXCEPT !.side = IF out.panicked THEN "panicked" ELSE "returned"]
    /\ prov' = Prov("other", 0)
    /\ debug_assertions' = TRUE
    /\ UNCHANGED << v, idx, steps, done, fin >>

\* ------------------------------------------------------------ finally.rs

\* Finally::new
Finally_new(func) == [m_func |-> func, m_invoked |-> FALSE]

\* Finally::ignore
Finally_ignore(self) == [self EXCEPT !.m_invoked = TRUE]

\* a drop that does not look at m_invoked
Finally_drop_unconditional(self) == << self.m_func >>

\* Drop for Finally: the functions the drop calls
Finally_drop(self) == IF ~self.m_invoked THEN << self.m_func >> ELSE << >>

\* the closure of finally_general, run for each function in called: it sets
\* executed; calls counts the runs of each guard's function
func(called, f) ==
    [f EXCEPT !.calls = [g \in DOMAIN f.calls |->
                            f.calls[g] + Len(SelectSeq(called, LAMBDA c : c = g))],
              !.executed = f.executed \/ called # << >>]

\* let guard = Finally::new(func);
FinallyNew ==
    /\ Len(fin.guards) < MaxGuards
    /\ fin' = [fin EXCEPT !.guards = Append(@, Finally_new(Len(fin.guards) + 1)),
                          !.live = Append(@, TRUE),
                          !.ignored = Append(@, FALSE),
                          !.calls = Append(@, 0)]
    /\ UNCHANGED << debug_assertions, v, idx, prov, last, steps, done, twin >>

\* guard.ignore(); on a guard that was not dropped
FinallyIgnore ==
    /\ \E g \in DOMAIN fin.guards :
          /\ fin.live[g]
          /\ fin' = [fin EXCEPT !.guards[g] = Finally_ignore(@), !.ignored[g] = TRUE]
    /\ UNCHANGED << debug_assertions, v, idx, prov, last, steps, done, twin >>

\* the end of the scope of a guard, or drop(guard): a guard is dropped once
FinallyDrop ==
    /\ \E g \in DOMAIN fin.guards :
          /\ fin.live[g]
          /\ fin' = func(Finally_drop(fin.guards[g]), [fin EXCEPT !.live[g] = FALSE])
    /\ UNCHANGED << debug_assertions, v, idx, prov, last, steps, done, twin >>

\* executed.set(false);
ExecutedReset ==
    /\ fin' = [fin EXCEPT !.executed = FALSE]
    /\ UNCHANGED << debug_assertions, v, idx, prov, last, steps, done, twin >>

\* no guard was made, and no SafeIntegral is involved
InitFinally ==
    /\ debug_assertions = TRUE
    /\ v = NoOperand
    /\ idx = SafeIdx_construct("magic_0", 0)
    /\ prov = Prov("other", 0)
    /\ last = Log("none", "none", "none", NoOperand, 0, Done)
    /\ steps = 0
    /\ done = FALSE
    /\ twin = NoOperand
    /\ fin = NoGuards

NextFinally ==
    \/ FinallyNew
    \/ FinallyIgnore
    \/ FinallyDrop
    \/ ExecutedReset

\* the two builds start from the same constructed value
InitPair ==
    /\ debug_assertions = TRUE
    /\ InitValues
    /\ twin = v
    /\ fin = NoGuards

NextPair ==
    \/ PairDebug
    \/ PairRelease

\* the checked primitives and the operators built on them
NextChecked ==
    \/ CheckedPrimitive
    \/ ArithT
    \/ ArithAssignT

\* a SafeIntegral in a debug build
Spec == Init /\ [][Next]_vars

\* a SafeIntegral in a release build
SpecRelease == InitRelease /\ [][Next]_vars

\* a SafeIdx and a SafeIntegral in a debug build
SpecIdx == Init /\ [][NextIdx]_vars

\* the conversion functions in a debug build
SpecConv == Init /\ [][NextConv]_vars

\* the checked primitives on every pair of 8-bit operands
SpecChecked == InitChecked /\ [][NextChecked]_vars

\* a debug build and a release build making the same calls in turn;
\* debug_assertions tells whose turn it is
SpecPair == InitPair /\ [][NextPair]_vars

\* Finally guards that are made, ignored and dropped in any order
SpecFinally == InitFinally /\ [][NextFinally]_vars

\* ------------------------------------------------------------ the claims

ArithForms == {"assign", "assign_T", "binary", "binary_T"}

\* the reads of v: get, is_pos, is_neg, is_zero and the comparisons
ReadForms == {"read", "compare", "compare_T"}

\* C1: in a debug build, a value that results from arithmetic on valid
\* operands without overflow and has not since passed through is_poisoned(),
\* is_zero_or_poisoned() or checked() makes get(), is_pos(), is_zero(),
\* is_neg() and every comparison with it on either side panic, although
\* is_valid() is true of it
C1_UncheckedArithmeticResultPanicsOnRead ==
    (debug_assertions /\ done /\ prov.kind = "arith" /\ last.form \in ReadForms)
        => (last.panicked /\ is_valid(v))

C1_Witness ==
    /\ done
    /\ prov.kind = "arith"
    /\ last.form = "compare"
    /\ last.side = "rhs"
    /\ is_valid_and_checked(last.other)
    /\ last.panicked
    /\ is_valid(v)

\* C2: in a debug build, is_poisoned() on the result of arithmetic on valid
\* operands without overflow returns false, and from then on get() returns
\* the arithmetic result without panicking; is_poisoned() on a poisoned value
\* returns true and leaves it poisoned and unchecked, so that get() still
\* panics
C2_IsPoisonedDischargesOnlyValid ==
    debug_assertions =>
        /\ (prov.kind = "arith_probed" /\ last.op = "is_poisoned")
              => last.ret = << FALSE >>
        /\ (prov.kind = "arith_probed" /\ done /\ last.op = "get")
              => (~last.panicked /\ last.ret = << prov.val >>)
        /\ (prov.kind = "poison_probed" /\ last.op = "is_poisoned")
              => (last.ret = << TRUE >> /\ v.m_poisoned /\ v.m_unchecked)
        /\ (prov.kind = "poison_probed" /\ done /\ last.op = "get")
              => last.panicked

C2_Witness ==
    /\ prov.kind = "arith_probed"
    /\ done
    /\ last.op = "get"
    /\ ~last.panicked
    /\ last.ret = << 2 >>

\* C3: in a debug build, every arithmetic operator, binary or compound, with
\* a SafeIntegral or a raw right operand, leaves a result of which
\* is_checked() is false, whether or not it overflowed and whatever the
\* checked state of its operands
C3_ArithmeticLeavesUnchecked ==
    (debug_assertions /\ last.op \in ArithOps /\ last.form \in ArithForms)
        => ~is_checked(v)

C3_Witness ==
    /\ last.op = "mul"
    /\ last.form = "assign_T"
    /\ prov.kind = "arith"
    /\ is_valid(v)
    /\ ~is_checked(v)

\* C4: the result of a op b (op among + - * / %) is poisoned if and only if
\* a is poisoned, or b is poisoned (a raw right operand counts as not
\* poisoned), or the checked primitive on the stored values returns no value;
\* a result that is not poisoned holds the exact arithmetic result
C4_ArithmeticPoisonAndValue ==
    [][(last'.op \in ArithOps /\ last'.form \in ArithForms) =>
          LET raw  == last'.form \in {"assign_T", "binary_T"}
              o    == last'.other
              a    == IF last'.side = "lhs" THEN v ELSE o
              bval == IF raw THEN last'.raw
                      ELSE IF last'.side = "lhs" THEN o.m_val ELSE v.m_val
              bpoi == IF raw THEN FALSE
                      ELSE IF last'.side = "lhs" THEN o.m_poisoned ELSE v.m_poisoned
          IN  /\ v'.m_poisoned <=>
                    \/ a.m_poisoned
                    \/ bpoi
                    \/ is_none(arith_checked(last'.op, a.ty, a.m_val, bval))
              /\ ~v'.m_poisoned => v'.m_val = ExactResult(last'.op, a.m_val, bval)
      ]_vars

C4_Witness ==
    /\ last.op = "sub"
    /\ last.form = "binary"
    /\ last.side = "rhs"
    /\ ~v.m_poisoned
    /\ prov.kind = "arith"
    /\ v.m_val = prov.val
    /\ v.m_val = -2

\* C5: in a debug build, get(), is_pos(), is_zero(), is_neg() and every
\* equality or ordering comparison with v on either side panic for every
\* poisoned v, however it became poisoned
C5_PoisonedReadPanics ==
    (debug_assertions /\ done /\ last.form \in ReadForms /\ v.m_poisoned)
        => last.panicked

C5_Witness ==
    /\ done
    /\ last.op = "<="
    /\ last.form = "compare"
    /\ last.side = "rhs"
    /\ is_valid_and_checked(last.other)
    /\ v.m_poisoned
    /\ last.panicked

\* C6: a poisoned value stays poisoned through every operation in place
\* (compound arithmetic, shift and bitwise assignment, is_poisoned(),
\* is_zero_or_poisoned(), the pure queries), and every value derived from it
\* by a binary operator, negation, complement, max/min or a conversion is
\* poisoned; only the assignment of a value made from a raw integer (by a
\* constructor or by to_X of the raw integer) makes the variable valid again
C6_PoisonIsPermanent ==
    [][(v.m_poisoned /\ ~v'.m_poisoned) =>
          \/ last'.form = "ctor" /\ last'.op # "failure"
          \/ last'.form = "convert_T"]_vars

C6_Witness ==
    /\ steps = 2
    /\ last.op = "is_zero_or_poisoned"
    /\ last.ret = << TRUE >>
    /\ prov.kind = "poison_probed"
    /\ v.m_poisoned
    /\ v.m_val # 0

\* C7: the values new(v), default(), make_safe(v), magic_0..3(),
\* magic_neg_1..3(), max_value() and min_value() return are neither poisoned
\* nor unchecked, get() returns the constructed value without panicking, and
\* is_valid_and_checked() is true of them
C7_ConstructedIsValidAndChecked ==
    prov.kind = "ctor" =>
        /\ ~v.m_poisoned
        /\ ~v.m_unchecked
        /\ is_valid_and_checked(v)
        /\ get(v) = Return(prov.val)
        /\ (done /\ last.op = "get") => (~last.panicked /\ last.ret = << prov.val >>)

C7_Witness ==
    /\ prov.kind = "ctor"
    /\ done
    /\ last.op = "get"
    /\ ~last.panicked
    /\ last.ret = << -128 >>

\* the operand besides v is valid: a raw operand always is
OtherValid == last'.form \in {"assign", "binary"} => ~last'.other.m_poisoned

C9_Original ==
    [][(debug_assertions /\ last'.op = "neg" /\ ~v.m_poisoned) =>
          IF v.m_val = -Pow2(BitsOf(v.ty) - 1)
          THEN v'.m_poisoned /\ is_unchecked(v')
          ELSE is_checked(v')]_vars

\* C9 as amended: in a debug build, the negation of a valid operand other
\* than min_value has the checked state of its operand (checked for a fresh or
\* checked operand, unchecked for an unchecked one); the negation of min_value
\* is poisoned and unchecked
C9_NegationKeepsCheckedState ==
    [][(debug_assertions /\ last'.op = "neg" /\ ~v.m_poisoned) =>
          IF v.m_val = -Pow2(BitsOf(v.ty) - 1)
          THEN v'.m_poisoned /\ is_unchecked(v')
          ELSE ~v'.m_poisoned /\ is_checked(v') = is_checked(v)]_vars

C9_Witness ==
    /\ steps = 2
    /\ last.op = "neg"
    /\ is_valid(v)
    /\ is_unchecked(v)
    /\ v.m_val = -2

\* C10: -a is poisoned if and only if a is poisoned or holds min_value;
\* otherwise -a holds the arithmetic negation of a, so that -(-a) holds the
\* value of a; negation never panics
C10_NegationPoisonAndValue ==
    [][last'.op = "neg" =>
          /\ v'.m_poisoned <=> (v.m_poisoned \/ v.m_val = -Pow2(BitsOf(v.ty) - 1))
          /\ ~v'.m_poisoned =>
                /\ v'.m_val = -v.m_val
                /\ ~neg(v').m_poisoned
                /\ neg(v').m_val = v.m_val
          /\ ~last'.panicked
          /\ ~done']_vars

C10_Witness ==
    /\ steps = 2
    /\ last.op = "neg"
    /\ ~v.m_poisoned
    /\ prov.kind = "other"
    /\ v.m_val = 127

\* C11: is_invalid(), is_valid(), is_zero_or_invalid(), is_unchecked(),
\* is_checked() and is_valid_and_checked() change nothing: a valid but
\* unchecked value is still unchecked after them and get() on it still panics
\* in a debug build; is_invalid() returns the poisoned flag and is_valid() its
\* negation
C11_PureQueriesChangeNothing ==
    [][last'.form = "query" =>
          /\ v' = v
          /\ (debug_assertions /\ ~v.m_poisoned /\ v.m_unchecked)
                => (is_unchecked(v') /\ get(v').panicked)
          /\ last'.op = "is_invalid" => last'.ret = << v.m_poisoned >>
          /\ last'.op = "is_valid" => last'.ret = << ~v.m_poisoned >>]_vars

C11_Witness ==
    /\ steps = 2
    /\ prov.kind = "arith"
    /\ last.op = "is_valid_and_checked"
    /\ last.ret = << FALSE >>
    /\ is_valid(v)
    /\ is_unchecked(v)
    /\ get(v).panicked

\* C12: checked() on a value that is not poisoned returns a value with the
\* same stored integer, not poisoned and not unchecked, so that get() on it
\* succeeds, and leaves the receiver unchanged; checked() on a poisoned value
\* panics in a debug build and returns nothing
C12_CheckedClearsOrPanics ==
    [][(debug_assertions /\ last'.op = "checked") =>
          IF v.m_poisoned
          THEN last'.panicked /\ done' /\ v' = v
          ELSE /\ ~last'.panicked
               /\ last'.form = "unary" =>
                     /\ v'.m_val = v.m_val
                     /\ ~v'.m_poisoned
                     /\ ~is_unchecked(v')
                     /\ get(v') = Return(v.m_val)
               /\ last'.form = "checked_get" =>
                     /\ v' = v
                     /\ last'.ret = << v.m_val >>]_vars

C12_Witness ==
    /\ done
    /\ last.op = "checked"
    /\ last.form = "checked_get"
    /\ ~last.panicked
    /\ prov.kind = "arith"
    /\ is_unchecked(v)
    /\ last.ret = << v.m_val >>

\* C13: for an unsigned a and a SafeIntegral right operand r, the result of
\* a << r, a >> r, a & r, a | r, a ^ r is poisoned if and only if a or r is
\* poisoned, and a poisoned result is unchecked; with a raw right operand,
\* and for !a, the result is poisoned exactly when a is; none of these
\* operators panics
C13_ShiftBitwisePoison ==
    [][last'.op \in ShiftOps \cup BitOps \cup {"not"} =>
          /\ IF last'.form \in {"assign", "binary"}
             THEN /\ v'.m_poisoned <=> (v.m_poisoned \/ last'.other.m_poisoned)
                  /\ v'.m_poisoned => is_unchecked(v')
             ELSE v'.m_poisoned <=> v.m_poisoned
          /\ ~last'.panicked
          /\ ~done']_vars

C13_Witness ==
    /\ last.op = "shr"
    /\ last.form = "binary"
    /\ last.other.m_poisoned
    /\ prov.kind = "other"
    /\ v.m_poisoned
    /\ is_unchecked(v)
    /\ v.m_val = 1

\* the operand max / min returns for two valid operands that can be read
MaxMinChoice(op, a, b) ==
    IF op = "max"
    THEN IF a.m_val > b.m_val THEN a ELSE b
    ELSE IF a.m_val < b.m_val THEN a ELSE b

\* C14 as stated: a.max(b) and a.min(b) return failure() when a or b is
\* poisoned; otherwise, whatever the checked state of the operands, they
\* return without panicking the operand with the greater (lesser) value, b
\* when the values are equal, with its checked state as it was
C14_Original ==
    [][last'.op \in {"max", "min"} =>
          LET o == last'.other
              a == IF last'.side = "lhs" THEN v ELSE o
              b == IF last'.side = "lhs" THEN o ELSE v
          IN  IF a.m_poisoned \/ b.m_poisoned
              THEN ~last'.panicked /\ v' = failure(a.ty)
              ELSE ~last'.panicked /\ v' = MaxMinChoice(last'.op, a, b)]_vars

\* C14 as amended: a.max(b) and a.min(b) return failure() when a or b is
\* poisoned; otherwise, when both operands are checked, they return without
\* panicking the operand with the greater (lesser) value, b when the values
\* are equal, with its checked state as it was; in a debug build they panic
\* when a valid operand is unchecked
C14_MaxMinReadsItsOperands ==
    [][(debug_assertions /\ last'.op \in {"max", "min"}) =>
          LET o == last'.other
              a == IF last'.side = "lhs" THEN v ELSE o
              b == IF last'.side = "lhs" THEN o ELSE v
          IN  IF a.m_poisoned \/ b.m_poisoned
              THEN ~last'.panicked /\ v' = failure(a.ty)
              ELSE IF a.m_unchecked \/ b.m_unchecked
              THEN last'.panicked /\ done' /\ v' = v
              ELSE ~last'.panicked /\ v' = MaxMinChoice(last'.op, a, b)]_vars

C14_Witness ==
    /\ done
    /\ last.op = "min"
    /\ last.side = "lhs"
    /\ last.panicked
    /\ prov.kind = "arith"
    /\ is_valid(v)
    /\ is_valid_and_checked(last.other)

\* the value of a digit character
DigitValue(c) ==
    CASE c = "0" -> 0 [] c = "1" -> 1 [] c = "2" -> 2 [] c = "3" -> 3 [] c = "4" -> 4
      [] c = "5" -> 5 [] c = "6" -> 6 [] c = "7" -> 7 [] c = "8" -> 8 [] c = "9" -> 9
      [] c \in {"a", "A"} -> 10 [] c \in {"b", "B"} -> 11 [] c \in {"c", "C"} -> 12
      [] c \in {"d", "D"} -> 13 [] c \in {"e", "E"} -> 14 [] c \in {"f", "F"} -> 15

RECURSIVE ParseDigits(_, _)
\* the number a digit string denotes in the radix
ParseDigits(ds, radix) ==
    IF ds = << >> THEN 0
    ELSE ParseDigits(SubSeq(ds, 1, Len(ds) - 1), radix) * radix + DigitValue(ds[Len(ds)])

\* the number a rendering denotes for a value of type t: decimal with a sign,
\* the bit pattern of the type in radix 2, 8 or 16, or mantissa and exponent
TextValue(trait, t, text) ==
    LET minus == text[1] = "-"
        body == IF minus THEN Tail(text) ELSE text
    IN  CASE trait = "Display" ->
                IF minus THEN -ParseDigits(body, 10) ELSE ParseDigits(body, 10)
          [] trait \in {"Binary", "Octal", "LowerHex", "UpperHex"} ->
                LET radix == CASE trait = "Binary" -> 2 [] trait = "Octal" -> 8 [] OTHER -> 16
                    u     == ParseDigits(text, radix)
                    bits  == IF t = "usize" THEN UsizeBits
                             ELSE IF t \in {"i8", "u8"} THEN 8 ELSE 16
                IN  IF t \in {"i8", "i16"} /\ u >= 2 ^ (bits - 1) THEN u - 2 ^ bits ELSE u
          [] trait \in {"LowerExp", "UpperExp"} ->
                LET pe     == CHOOSE i \in 1 .. Len(body) : body[i] \in {"e", "E"}
                    IsDigit(c) == c # "."
                    mant   == SelectSeq(SubSeq(body, 1, pe - 1), IsDigit)
                    ex     == ParseDigits(SubSeq(body, pe + 1, Len(body)), 10)
                    m      == ParseDigits(mant, 10) * 10 ^ (ex - (Len(mant) - 1))
                IN  IF minus THEN -m ELSE m

\* the fixed text a poisoned value renders as
SentinelText == << "[", "e", "r", "r", "o", "r", "]" >>

\* C15 as stated: formatting a SafeIntegral or a SafeIdx never panics; a
\* poisoned value renders as "[error]" and every other value renders its
\* stored number
C15_Original ==
    /\ last.form = "fmt" =>
          /\ ~last.panicked
          /\ v.m_poisoned => last.ret = << SentinelText >>
          /\ ~v.m_poisoned =>
                /\ unwrap(last.ret) # SentinelText
                /\ TextValue(last.op, v.ty, unwrap(last.ret)) = v.m_val
    /\ last.form = "idx_fmt" =>
          /\ ~last.panicked
          /\ idx.m_poisoned => last.ret = << SentinelText >>
          /\ ~idx.m_poisoned =>
                /\ unwrap(last.ret) # SentinelText
                /\ TextValue(last.op, "usize", unwrap(last.ret)) = idx.m_val

\* C15: formatting a SafeIdx never panics, and formatting a SafeIntegral does
\* not panic when the value is poisoned or valid and checked: a poisoned value
\* renders as "[error]" and a valid one renders its stored number; in a debug
\* build, formatting a valid SafeIntegral that is still unchecked panics
C15_FormattingReadsThroughGet ==
    /\ last.form = "fmt" =>
          /\ v.m_poisoned => ~last.panicked /\ last.ret = << SentinelText >>
          /\ (~v.m_poisoned /\ ~v.m_unchecked) =>
                /\ ~last.panicked
                /\ unwrap(last.ret) # SentinelText
                /\ TextValue(last.op, v.ty, unwrap(last.ret)) = v.m_val
          /\ (~v.m_poisoned /\ v.m_unchecked) => last.panicked
    /\ last.form = "idx_fmt" =>
          /\ ~last.panicked
          /\ idx.m_poisoned => last.ret = << SentinelText >>
          /\ ~idx.m_poisoned =>
                /\ unwrap(last.ret) # SentinelText
                /\ TextValue(last.op, "usize", unwrap(last.ret)) = idx.m_val

\* 1 + 1 formatted as {:x} before it was checked
C15_Witness ==
    /\ last.form = "fmt"
    /\ last.op = "LowerHex"
    /\ prov.kind = "arith"
    /\ v.m_val = 2
    /\ ~v.m_poisoned
    /\ v.m_unchecked
    /\ last.panicked

\* what a read returns when it reads the stored values as they are; w: the
\* value before the read, l: the record of the read
StoredResult(w, l) ==
    LET o == IF l.form \in {"compare", "idx_compare", "idx_compare_umx"}
             THEN l.other.m_val ELSE l.raw
        a == IF l.side = "lhs" THEN w.m_val ELSE o
        b == IF l.side = "lhs" THEN o ELSE w.m_val
    IN  CASE l.op = "get" -> w.m_val
          [] l.op = "is_pos" -> w.m_val > 0
          [] l.op = "is_neg" -> w.m_val < 0
          [] l.op = "is_zero" -> w.m_val = 0
          [] l.op = "==" -> a = b
          [] l.op = "!=" -> a # b
          [] l.op = "<" -> a < b
          [] l.op = ">" -> a > b
          [] l.op = "<=" -> a <= b
          [] l.op = ">=" -> a >= b

\* C16 as stated: in a release build get(), is_pos(), is_zero(), is_neg() and
\* the comparison operators panic when an operand is poisoned, and do not
\* panic on valid operands, checked or not
C16_Original ==
    (~debug_assertions /\ last.form \in ReadForms) =>
        (last.panicked <=> (v.m_poisoned \/ (last.form = "compare" /\ last.other.m_poisoned)))

\* C16: in a release build get(), is_pos(), is_zero(), is_neg() and the
\* comparison operators never panic: whether an operand is valid, unchecked
\* or poisoned, they return the result computed from the stored values
C16_ReleaseReadsNeverPanic ==
    (~debug_assertions /\ last.form \in ReadForms) =>
        /\ ~last.panicked
        /\ last.ret = << StoredResult(v, last) >>

\* in a release build, an operator poisons v while it holds 1, and v.get()
\* returns that 1
C16_Witness ==
    /\ ~debug_assertions
    /\ steps = 1
    /\ last.op = "get"
    /\ v.m_poisoned
    /\ v.m_val = 1
    /\ ~last.panicked
    /\ last.ret = << 1 >>

\* the type to_X returns a SafeIntegral of
TargetOf(op) ==
    CASE op = "to_i8" -> "i8" [] op = "to_i16" -> "i16" [] op = "to_u8" -> "u8"
      [] op = "to_u16" -> "u16" [] op = "to_umx" -> "usize"
      [] op = "to_u8_unsafe" -> "u8" [] op = "to_u16_unsafe" -> "u16"
      [] op = "to_umx_unsafe" -> "usize"
      [] op = "into_i8" -> "i8" [] op = "into_i16" -> "i16" [] op = "into_u8" -> "u8"
      [] op = "into_u16" -> "u16" [] op = "into_usize" -> "usize"

\* n is a value of the integer type X
Fits(n, X) ==
    CASE X = "i8" -> -128 <= n /\ n <= 127
      [] X = "i16" -> -32768 <= n /\ n <= 32767
      [] X = "u8" -> 0 <= n /\ n <= 255
      [] X = "u16" -> 0 <= n /\ n <= 65535
      [] X = "usize" -> 0 <= n /\ n < 2 ^ UsizeBits

\* C17: for every target X and every source (a raw integer, a SafeIntegral of
\* any width, a SafeIdx), to_X(source) is poisoned if and only if the source
\* was poisoned or its value is not representable in X; when not poisoned the
\* result holds the same value; to_X never panics
C17_ConversionPoisonAndValue ==
    [][(last'.form \in {"convert", "convert_T", "convert_idx"}
            /\ last'.op \in {"to_i8", "to_i16", "to_u8", "to_u16", "to_umx"}
            /\ steps' = steps + 1) =>
          LET n   == CASE last'.form = "convert" -> v.m_val
                       [] last'.form = "convert_T" -> last'.raw
                       [] last'.form = "convert_idx" -> idx.m_val
              bad == CASE last'.form = "convert" -> v.m_poisoned
                       [] last'.form = "convert_T" -> FALSE
                       [] last'.form = "convert_idx" -> idx.m_poisoned
              X   == TargetOf(last'.op)
          IN  /\ ~last'.panicked
              /\ v'.ty = X
              /\ v'.m_poisoned <=> (bad \/ ~Fits(n, X))
              /\ ~v'.m_poisoned => v'.m_val = n]_vars

\* to_u8 of a valid SafeIdx that holds more than 255: the result is poisoned
C17_Witness ==
    /\ last.form = "convert_idx"
    /\ last.op = "to_u8"
    /\ ~idx.m_poisoned
    /\ idx.m_val > 255
    /\ v.ty = "u8"
    /\ v.m_poisoned

\* C18: for every pair of integer types X and Y and every valid value n,
\* to_X(to_Y(n)) is valid and holds n whenever n is representable in both X
\* and Y; otherwise to_Y(n) or the final result is invalid
C18_ConversionRoundTrip ==
    [][(prov.kind = "conv" /\ prov'.kind = "conv2") =>
          LET n == prov.val
              Y == v.ty
              X == TargetOf(last'.op)
          IN  IF Fits(n, X) /\ Fits(n, Y)
              THEN is_valid(v') /\ v'.m_val = n /\ v'.ty = X
              ELSE is_invalid(v) \/ is_invalid(v')]_vars

\* to_u8(to_Y(255)) is invalid although 255 is a u8: Y could not hold it
C18_Witness ==
    /\ prov.kind = "conv2"
    /\ prov.val = 255
    /\ last.op = "to_u8"
    /\ v.ty = "u8"
    /\ is_invalid(v)

\* C19: in a debug build, to_idx(v) and SafeIdx::new_from(s, loc) panic if and
\* only if the pointer-width value they are given is poisoned (the source was
\* poisoned, or is negative), whatever its checked state; otherwise they
\* return a valid SafeIdx holding the source's value, so no SafeIdx is
\* constructed poisoned from a safe-integral source
C19_ToIdxPanicsOnPoison ==
    [][(debug_assertions /\ last'.form = "to_idx" /\ steps' = steps + 1) =>
          LET src == last'.other
              bad == src.m_poisoned \/ src.m_val < 0
          IN  /\ last'.panicked <=> bad
              /\ last'.panicked => idx' = idx
              /\ ~last'.panicked =>
                    /\ ~idx'.m_poisoned
                    /\ idx'.m_val = src.m_val]_vars

\* to_idx(1 + 1) before the sum was checked: a valid SafeIdx holding 2
C19_Witness ==
    /\ last.op = "to_idx"
    /\ last.other = v
    /\ prov.kind = "arith"
    /\ v.m_unchecked
    /\ ~v.m_poisoned
    /\ ~last.panicked
    /\ ~idx.m_poisoned
    /\ idx.m_val = 2

\* C20: for a SafeIdx a and a right operand b (a SafeIdx or a raw usize),
\* a + b and a - b are poisoned if and only if a is poisoned, b is poisoned,
\* or the exact result is above the usize maximum (add) or below zero (sub);
\* a valid result holds the exact sum or difference and is read at once with
\* no check step; the operators never panic
C20_IdxArithmeticPoisonAndValue ==
    [][(last'.form \in {"idx_assign", "idx_assign_T", "idx_binary", "idx_binary_T"}
            /\ steps' = steps + 1) =>
          LET raw   == last'.form \in {"idx_assign_T", "idx_binary_T"}
              o     == IF raw THEN [m_val |-> last'.raw, m_poisoned |-> FALSE]
                       ELSE [m_val |-> last'.other.m_val,
                             m_poisoned |-> last'.other.m_poisoned]
              a     == IF last'.side = "lhs" THEN idx ELSE o
              b     == IF last'.side = "lhs" THEN o ELSE idx
              exact == IF last'.op = "add" THEN a.m_val + b.m_val ELSE a.m_val - b.m_val
              out   == exact < 0 \/ exact > 2 ^ UsizeBits - 1
          IN  /\ ~last'.panicked
              /\ ~done'
              /\ idx'.m_poisoned <=> (a.m_poisoned \/ b.m_poisoned \/ out)
              /\ ~idx'.m_poisoned =>
                    /\ idx'.m_val = exact
                    /\ SafeIdx_get_with_sloc(idx') = Return(exact)]_vars

\* magic_0() - 1: the SafeIdx is poisoned and nothing panicked
C20_Witness ==
    /\ steps = 1
    /\ last.form = "idx_binary_T"
    /\ last.op = "sub"
    /\ last.raw = 1
    /\ idx.m_poisoned
    /\ ~last.panicked
    /\ ~done

\* C21: when a SafeIdx add or sub overflows or underflows, the stored value is
\* the one the left operand held before the operation (the last value
\* computed without overflow, or the constructed one) and only the poisoned
\* flag changes
C21_IdxOverflowKeepsValue ==
    [][(last'.form \in {"idx_assign", "idx_assign_T", "idx_binary", "idx_binary_T"}
            /\ steps' = steps + 1) =>
          LET raw   == last'.form \in {"idx_assign_T", "idx_binary_T"}
              o     == IF raw THEN [m_val |-> last'.raw, m_poisoned |-> FALSE]
                       ELSE [m_val |-> last'.other.m_val,
                             m_poisoned |-> last'.other.m_poisoned]
              a     == IF last'.side = "lhs" THEN idx ELSE o
              b     == IF last'.side = "lhs" THEN o ELSE idx
              exact == IF last'.op = "add" THEN a.m_val + b.m_val ELSE a.m_val - b.m_val
          IN  (exact < 0 \/ exact > 2 ^ UsizeBits - 1) =>
                  /\ idx'.m_val = a.m_val
                  /\ idx'.m_poisoned]_vars

\* idx was computed to 1 and then max_value() was subtracted from it: idx is
\* poisoned and still holds 1
C21_Witness ==
    /\ steps = 2
    /\ last.form = "idx_assign_T"
    /\ last.op = "sub"
    /\ last.raw = 2 ^ UsizeBits - 1
    /\ idx.m_poisoned
    /\ idx.m_val = 1

\* C22: in a debug build, get(), is_pos(), is_zero() of a SafeIdx and its
\* comparisons with another SafeIdx or a raw usize panic if and only if a
\* SafeIdx operand is poisoned; a valid SafeIdx, including every valid result
\* of + or -, is read at once and the read returns the result for the stored
\* values
C22_IdxReadPanicsOnPoison ==
    (debug_assertions /\ last.form \in {"idx_read", "idx_compare", "idx_compare_T"}) =>
        LET bad == idx.m_poisoned \/ (last.form = "idx_compare" /\ last.other.m_poisoned)
        IN  /\ last.panicked <=> bad
            /\ ~bad => last.ret = << StoredResult(idx, last) >>

\* max_value() - 1, which only a subtraction produces, read by is_pos()
C22_Witness ==
    /\ last.form = "idx_read"
    /\ last.op = "is_pos"
    /\ ~idx.m_poisoned
    /\ idx.m_val = 2 ^ UsizeBits - 2
    /\ last.ret = << TRUE >>
    /\ ~last.panicked

\* C23: for N in {8, 16} and valid operands, merge_umx_with_uN(upper, lower)
\* is valid and holds upper - (upper mod 2^N) + lower: the low N bits are those
\* of lower and every higher bit is that of upper
C23_MergeReplacesLowBits ==
    [][last'.form = "merge" /\ ~v.m_poisoned /\ ~last'.other.m_poisoned
          => /\ ~v'.m_poisoned
             /\ v'.m_val = v.m_val - (v.m_val % Pow2(last'.raw)) + last'.other.m_val]_vars

\* a 16-bit lower half was merged into a value with bits set on both sides of
\* bit 16: 2^UsizeBits - 1 became 2^UsizeBits - 2^16 + 1
C23_Witness ==
    /\ last.op = "merge_umx_with_u16"
    /\ last.other = new("u16", 1)
    /\ v = SafeIntegral("usize", Pow2(UsizeBits) - Pow2(16) + 1, FALSE, FALSE)

\* C24: to_u8_unsafe, to_u16_unsafe and to_umx_unsafe of an unsigned source
\* never panic and never add poison: the result holds the source modulo 2^W
\* and exactly the poisoned and unchecked flags of the source
C24_UnsafeConversionTruncates ==
    last.form = "convert_unsafe"
        => /\ ~last.panicked
           /\ v.ty = TargetOf(last.op)
           /\ v.m_val = last.other.m_val % Pow2(last.raw)
           /\ v.m_poisoned = last.other.m_poisoned
           /\ v.m_unchecked = last.other.m_unchecked

\* the unchecked 65535 + 0 of a SafeU16 was narrowed to an unchecked,
\* unpoisoned SafeU8 holding 255
C24_Witness ==
    /\ last.op = "to_u8_unsafe"
    /\ last.other = SafeIntegral("u16", 65535, FALSE, TRUE)
    /\ v = SafeIntegral("u8", 255, FALSE, TRUE)

\* q is the quotient of a by b rounded towards zero
IsQuotient(q, a, b) ==
    /\ Abs(q) * Abs(b) <= Abs(a)
    /\ Abs(a) < (Abs(q) + 1) * Abs(b)
    /\ q # 0 => (q > 0) = ((a > 0) = (b > 0))

\* the operands for which a checked primitive has no value to return
NoValueCase(op, t, a, b) ==
    CASE op = "add" -> a + b < T_min_value(t) \/ a + b > T_max_value(t)
      [] op = "sub" -> a - b < T_min_value(t) \/ a - b > T_max_value(t)
      [] op = "mul" -> a * b < T_min_value(t) \/ a * b > T_max_value(t)
      [] op \in {"div", "rem"} ->
            b = 0 \/ (t \in SignedTypes /\ a = T_min_value(t) /\ b = -1)

\* r is the exact result of op on a and b
IsExactResult(r, op, a, b) ==
    CASE op = "add" -> r = a + b
      [] op = "sub" -> r = a - b
      [] op = "mul" -> r = a * b
      [] op = "div" -> IsQuotient(r, a, b)
      [] op = "rem" -> /\ Abs(r) < Abs(b)
                       /\ r # 0 => (r > 0) = (a > 0)
                       /\ (a - r) % Abs(b) = 0

\* C25: the checked primitives never panic; they return no value when the
\* exact result leaves [min, max], when the divisor is zero and for
\* min_value / -1 and min_value % -1, and the exact result otherwise; a
\* SafeIntegral divided by a zero, or its remainder, is poisoned without a panic
C25_CheckedPrimitives ==
    /\ last.form = "primitive"
          => /\ ~last.panicked
             /\ LET ret == last.ret[1]
                    a == prov.val
                    b == last.raw
                IN  IF NoValueCase(last.op, v.ty, a, b)
                    THEN is_none(ret)
                    ELSE ~is_none(ret) /\ IsExactResult(unwrap(ret), last.op, a, b)
    /\ last.form \in {"binary_T", "assign_T"} /\ last.op \in {"div", "rem"} /\ last.raw = 0
          => ~last.panicked /\ v.m_poisoned

\* i8 min_value % -1 returned no value
C25_Witness ==
    /\ last.form = "primitive"
    /\ last.op = "rem"
    /\ v.ty = "i8"
    /\ prov.val = T_min_value("i8")
    /\ last.raw = -1
    /\ is_none(last.ret[1])

\* C26: a conversion probe into_D returns the value itself when it lies in
\* D's [min, max] and no value otherwise, whatever the source type; it never
\* returns a truncated or sign-changed value
C26_ProbeReturnsValueOrNothing ==
    last.form = "into"
        => /\ ~last.panicked
           /\ last.ret[1] = IF Fits(last.raw, TargetOf(last.op)) THEN Some(last.raw) ELSE None

\* a SafeI16 holding 128 = 127 + 1 was probed with into_i8, which returned no
\* value
C26_Witness ==
    /\ last.form = "into"
    /\ last.op = "into_i8"
    /\ v.ty = "i16"
    /\ last.raw = T_max_value("i8") + 1
    /\ is_none(last.ret[1])

C28_ConversionFlags ==
    [][last'.form \in {"convert", "convert_T"}
          => LET src == IF last'.form = "convert" THEN v ELSE last'.other
                 X == TargetOf(last'.op)
             IN  IF Fits(src.m_val, X)
                 THEN /\ v' = SafeIntegral(X, src.m_val, src.m_poisoned, src.m_unchecked)
                      /\ ~src.m_poisoned /\ ~src.m_unchecked => ~get(v').panicked
                 ELSE v' = SafeIntegral(X, 0, TRUE, TRUE)]_vars

\* a fresh -1 of an i8 was converted with to_u8: the result is failure(),
\* poisoned and unchecked although the source was neither
C28_Witness ==
    /\ last.op = "to_u8"
    /\ last.form = "convert_T"
    /\ last.other = new("i8", -1)
    /\ v = failure("u8")

\* the SafeIntegral values that the last read took: v, and the other operand
\* of a comparison of two SafeIntegrals
ValuesRead == IF last.form = "compare" THEN {v, last.other} ELSE {v}

\* C29: in a debug build a read (get, is_pos, is_neg, is_zero, a comparison)
\* succeeds exactly when every value it reads is fresh or checked, which is
\* when is_valid_and_checked() is true of it, and panics exactly when one of
\* them is unchecked or poisoned
C29_ReadSucceedsIffValidAndChecked ==
    debug_assertions /\ last.form \in {"read", "compare", "compare_T"}
        => /\ ~last.panicked <=> \A x \in ValuesRead : is_valid_and_checked(x)
           /\ last.panicked <=> \E x \in ValuesRead : x.m_unchecked \/ x.m_poisoned

\* the result of an arithmetic operator was checked with is_poisoned() and
\* then compared with a fresh value: the comparison read both and returned
C29_Witness ==
    /\ last.op = "<"
    /\ last.form = "compare"
    /\ prov.kind = "arith_probed"
    /\ is_valid_and_checked(last.other)
    /\ ~last.panicked

\* C30: is_zero_or_poisoned() and is_zero_or_invalid() never panic and answer
\* true exactly when the value is poisoned or holds 0; is_zero_or_poisoned()
\* leaves a valid value checked, so that get() returns it, and a poisoned
\* value as it was; is_zero_or_invalid() changes nothing
C30_ZeroOrPoisonedQueries ==
    [][last'.op \in {"is_zero_or_poisoned", "is_zero_or_invalid"}
          => /\ ~last'.panicked
             /\ last'.ret = << v.m_poisoned \/ v.m_val = 0 >>
             /\ IF last'.op = "is_zero_or_invalid" \/ v.m_poisoned
                THEN v' = v
                ELSE /\ v' = [v EXCEPT !.m_unchecked = FALSE]
                     /\ get(v') = Return(v.m_val)]_vars

\* is_zero_or_poisoned() answered false for the non-zero result of an
\* arithmetic operator, which it left checked
C30_Witness ==
    /\ last.op = "is_zero_or_poisoned"
    /\ last.ret = << FALSE >>
    /\ prov.kind = "arith_probed"
    /\ v.m_val # 0
    /\ ~v.m_unchecked

\* C31: after every call that both builds have made and that did not panic
\* in the debug build, the two hold the same stored value and the same
\* poisoned flag, and the release build did not panic either
C31_BuildsAgreeOnValueAndPoison ==
    debug_assertions /\ ~done
        => /\ twin.ty = v.ty
           /\ twin.m_val = v.m_val
           /\ twin.m_poisoned = v.m_poisoned
           /\ last.side # "panicked"

\* after two calls the debug build holds an unchecked value, the release build
\* the same value without the mark
C31_Witness ==
    /\ debug_assertions
    /\ steps = 2
    /\ ~done
    /\ last.op \in ArithOps
    /\ v.m_unchecked /\ ~v.m_poisoned
    /\ twin = [v EXCEPT !.m_unchecked = FALSE]

\* C32: in a debug build every value that constructors, operators,
\* conversions, is_poisoned() and checked() produce is unchecked if it is
\* poisoned: is_checked() implies is_valid()
C32_PoisonedImpliesUnchecked ==
    debug_assertions
        => /\ v.m_poisoned => v.m_unchecked
           /\ is_checked(v) => is_valid(v)

\* a value poisoned by an operator was then asked is_poisoned(): it is still
\* poisoned and still unchecked
C32_Witness ==
    /\ steps = 2
    /\ last.op = "is_poisoned"
    /\ last.ret = << TRUE >>
    /\ v.m_poisoned
    /\ v.m_unchecked
    /\ v.m_val # T_default(v.ty)

C35_IdxComparisonReadsOperandFully ==
    (debug_assertions /\ last.form = "idx_compare_umx"
                      /\ last.op \in {"==", "<", ">", "<=", ">="}) =>
        LET s == last.other
            bad == \/ idx.m_poisoned
                   \/ s.m_poisoned
                   \/ (~s.m_poisoned /\ s.m_unchecked)
        IN  /\ last.panicked <=> bad
            /\ ~bad => last.ret = << StoredResult(idx, last) >>

\* a valid SafeIdx compared with a valid SafeUMx that nothing has checked
C35_Witness ==
    /\ debug_assertions
    /\ last.form = "idx_compare_umx"
    /\ last.op = "<="
    /\ ~idx.m_poisoned
    /\ ~last.other.m_poisoned
    /\ last.other.m_unchecked
    /\ last.panicked

\* C36: the function of a Finally guard runs exactly once, in the step that
\* drops the guard, if ignore() was never called on the guard; it never runs
\* if ignore() was called before the drop; it runs in no other step, so never
\* before the drop and never more than once
C36_FinallyRunsOnceAtDrop ==
    [][\A g \in DOMAIN fin'.guards :
          LET was == g \in DOMAIN fin.guards
              before == IF was THEN fin.calls[g] ELSE 0
              dropped == was /\ fin.live[g] /\ ~fin'.live[g]
          IN  /\ fin'.calls[g] = before + (IF dropped /\ ~fin.ignored[g] THEN 1 ELSE 0)
              /\ fin'.live[g] => fin'.calls[g] = 0
              /\ ~fin'.live[g] => fin'.calls[g] = (IF fin'.ignored[g] THEN 0 ELSE 1)
              /\ (dropped /\ ~fin.ignored[g]) => fin'.executed]_vars

\* three guards: one ignored and dropped, one dropped as it was made, one
\* ignored and still to be dropped
C36_Witness ==
    /\ Len(fin.guards) = 3
    /\ fin.live = << FALSE, FALSE, TRUE >>
    /\ fin.ignored = << TRUE, FALSE, TRUE >>
    /\ fin.calls = << 0, 1, 0 >>
    /\ fin.executed

====
